---- MODULE Spec2Model ----
(***************************************************************************)
(* One call of a flux routine of the compressible solvers:                 *)
(*   unsplitFluxes  (compressible/unsplitFluxes.py), the unsplit CTU       *)
(*                  scheme with characteristic tracing and the transverse  *)
(*                  flux correction, and                                   *)
(*   fluxes         (compressible_rk/fluxes.py), the method-of-lines       *)
(*                  variant with the artificial-viscosity pass.            *)
(* Every stage of a routine is one action; pc is the position in the       *)
(* routine.  float64 numbers are modelled as fixed-point numbers: the      *)
(* integer n stands for n/One, products and quotients round toward zero.   *)
(***************************************************************************)
EXTENDS Integers, Sequences, FiniteSets, TLC

\* ------------------------------------------------------------------ bounds
\* grids have nx + ny <= MaxExtent interior cells per side and at most MaxNg
\* ghost layers
MaxExtent == 3
MaxNg == 3

\* ------------------------------------------------------- number model
\* the fixed-point unit: the integer One stands for 1.0
One == 100

Abs(a) == IF a < 0 THEN -a ELSE a
Sgn(a) == IF a > 0 THEN 1 ELSE IF a < 0 THEN -1 ELSE 0
Min(a, b) == IF a <= b THEN a ELSE b
Max(a, b) == IF a >= b THEN a ELSE b
Min3(a, b, c) == Min(a, Min(b, c))

\* integer quotient rounded toward zero (d # 0)
TDiv(n, d) == Sgn(n) * Sgn(d) * (Abs(n) \div Abs(d))
\* a*b and a/b of fixed-point numbers
FixMul(a, b) == TDiv(a * b, One)
FixDiv(a, b) == TDiv(a * One, b)

RECURSIVE ISqrtFrom(_, _, _)
\* the largest s in lo..hi with s*s <= x (bisection)
ISqrtFrom(x, lo, hi) ==
  IF lo >= hi THEN lo
  ELSE LET mid == (lo + hi + 1) \div 2
       IN IF mid * mid <= x THEN ISqrtFrom(x, mid, hi) ELSE ISqrtFrom(x, lo, mid - 1)
\* math.sqrt of a fixed-point number x >= 0; the root of x One is at most
\* the larger of x and One
FixSqrt(x) == ISqrtFrom(x * One, 0, Max(x, One))

Half == One \div 2
Quarter == One \div 4

\* ------------------------------------------------------------ the grid
\* a grid is [nx, ny, ng, dx, dy]; arrays are indexed 0..qx-1 by 0..qy-1
Qx(g) == g.nx + 2 * g.ng
Qy(g) == g.ny + 2 * g.ng
Ilo(g) == g.ng
Ihi(g) == g.ng + g.nx - 1
Jlo(g) == g.ng
Jhi(g) == g.ng + g.ny - 1
Cells(g) == (0 .. Qx(g) - 1) \X (0 .. Qy(g) - 1)

\* the least halo width the grid collaborator promises
MinNg == 2

\* conserved components (vars.idens, ixmom, iymom, iener) and primitive
\* components (vars.irho, iu, iv, ip), as 1-based tuple positions
idens == 1
ixmom == 2
iymom == 3
iener == 4
irho == 1
iu == 2
iv == 3
ip == 4
nvar == 4
Comps == 1 .. nvar

Zero4 == <<0, 0, 0, 0>>
\* numpy.zeros((qx, qy, nvar)) and numpy.zeros((qx, qy))
Zeros(g) == [c \in Cells(g) |-> Zero4]
Zeros1(g) == [c \in Cells(g) |-> 0]

\* Python indexing of an axis of length n: k in -n..n-1 is valid, a negative
\* k counts from the end; anything else raises IndexError
IndexOk(k, n) == -n <= k /\ k < n
Wrap(k, n) == IF k < 0 THEN k + n ELSE k
\* A[i, j] with Python index semantics (both indices valid)
At(g, A, i, j) == A[<<Wrap(i, Qx(g)), Wrap(j, Qy(g))>>]
CellOk(g, i, j) == IndexOk(i, Qx(g)) /\ IndexOk(j, Qy(g))

\* ------------------------------------------------------ equation of state
\* eos.gamma: 1.4
gamma == 140
smallp == 1

\* eos.pres(dens, e) = dens*e*(gamma - 1)
EosPres(dens, e) == FixMul(FixMul(dens, e), gamma - One)
\* eos.rhoe(p) = p/(gamma - 1)
EosRhoe(p) == FixDiv(p, gamma - One)

\* ------------------------------------------------- primitive derivation
\* lines 159-171: Q = (rho, u, v, p) of one cell from its conserved state,
\* the pressure floored at smallp (p.clip(smallp))
ConsToPrimCellNoFloor(Uc) ==
  LET dens == Uc[idens]
      xmom == Uc[ixmom]
      ymom == Uc[iymom]
      ener == Uc[iener]
      e == FixDiv(ener - FixDiv(FixMul(Half, FixMul(xmom, xmom) + FixMul(ymom, ymom)), dens), dens)
  IN <<dens, FixDiv(xmom, dens), FixDiv(ymom, dens), EosPres(dens, e)>>
ConsToPrimCell(Uc) ==
  LET dens == Uc[idens]
      xmom == Uc[ixmom]
      ymom == Uc[iymom]
      ener == Uc[iener]
      e == FixDiv(ener - FixDiv(FixMul(Half, FixMul(xmom, xmom) + FixMul(ymom, ymom)), dens), dens)
  IN <<dens, FixDiv(xmom, dens), FixDiv(ymom, dens), Max(EosPres(dens, e), smallp)>>

\* ------------------------------------------ conserved-variable transform
\* lines 239-243 (and 245-249, 287-297): one interface state V = (rho, u,
\* v, p) to conserved form
\* a transform whose energy leaves out the 1/(gamma-1) of the internal energy
PrimToConsCellNoEos(V) ==
  <<V[irho], FixMul(V[irho], V[iu]), FixMul(V[irho], V[iv]),
    V[ip] + FixMul(FixMul(Half, V[irho]), FixMul(V[iu], V[iu]) + FixMul(V[iv], V[iv]))>>
PrimToConsCell(V) ==
  <<V[irho],
    FixMul(V[irho], V[iu]),
    FixMul(V[irho], V[iv]),
    EosRhoe(V[ip]) + FixMul(FixMul(Half, V[irho]), FixMul(V[iu], V[iu]) + FixMul(V[iv], V[iv]))>>
PrimToCons(g, V) == [c \in Cells(g) |-> PrimToConsCell(V[c])]

\* --------------------------------------------------------- flattening
\* the neighbour of cell c, k cells along direction idir (1: x, 2: y)
Shift(c, idir, k) == IF idir = 1 THEN <<c[1] + k, c[2]>> ELSE <<c[1], c[2] + k>>
\* the cells whose +-k stencil along idir lies inside the padded grid
Fits(g, c, idir, k) == Shift(c, idir, -k) \in Cells(g) /\ Shift(c, idir, k) \in Cells(g)

\* the flattening parameters of unsplitFluxes (Colella 1990)
delta == 33
z0 == 75
z1 == 85

\* reconstruction_f.flatten(idir, p, u, ...): the one-dimensional
\* coefficient of cell c from the pressure jump over one and two cells and
\* the velocity difference; 1 where the two-cell stencil does not fit
FlattenCell(g, idir, P, Vel, c) ==
  IF ~Fits(g, c, idir, 2) THEN One
  ELSE LET dp == Abs(P[Shift(c, idir, 1)] - P[Shift(c, idir, -1)])
           dp2 == Abs(P[Shift(c, idir, 2)] - P[Shift(c, idir, -2)])
           z == FixDiv(dp, Max(dp2, smallp))
           test1 == Vel[Shift(c, idir, -1)] - Vel[Shift(c, idir, 1)]
           test2 == FixDiv(dp, Min(P[Shift(c, idir, 1)], P[Shift(c, idir, -1)]))
       IN IF test1 > 0 /\ test2 > delta
          THEN Min(One, Max(0, One - FixDiv(z - z0, z1 - z0)))
          ELSE One
Flatten(g, idir, P, Vel) == [c \in Cells(g) |-> FlattenCell(g, idir, P, Vel, c)]

\* reconstruction_f.flatten_multid(xi_x, xi_y, p, ...): the minimum of the
\* directional coefficients of the cell and of its upstream neighbours
FlattenMultidCell(g, xi_x, xi_y, P, c) ==
  IF ~(Fits(g, c, 1, 1) /\ Fits(g, c, 2, 1)) THEN Min(xi_x[c], xi_y[c])
  ELSE LET sx == IF P[Shift(c, 1, 1)] - P[Shift(c, 1, -1)] >= 0 THEN 1 ELSE -1
           sy == IF P[Shift(c, 2, 1)] - P[Shift(c, 2, -1)] >= 0 THEN 1 ELSE -1
       IN Min(Min(xi_x[c], xi_x[Shift(c, 1, -sx)]), Min(xi_y[c], xi_y[Shift(c, 2, -sy)]))
FlattenMultid(g, xi_x, xi_y, P) == [c \in Cells(g) |-> FlattenMultidCell(g, xi_x, xi_y, P, c)]

\* one primitive component of q as a scalar array
Comp(g, Q, n) == [c \in Cells(g) |-> Q[c][n]]

\* ------------------------------------------------------------- limiting
\* 2./3. and 0.25 of the 4th-order limiter
TwoThirds == (2 * One) \div 3

\* no limiting: the centred difference
NoLimitCell(g, idir, A, c) ==
  IF ~Fits(g, c, idir, 1) THEN 0
  ELSE FixMul(Half, A[Shift(c, idir, 1)] - A[Shift(c, idir, -1)])

\* the 2nd-order MC limiter: zero at an extremum, else the least of the
\* centred difference and twice the one-sided differences, with their sign
Limit2Cell(g, idir, A, c) ==
  IF ~Fits(g, c, idir, 1) THEN 0
  ELSE LET dp == A[Shift(c, idir, 1)] - A[c]
           dm == A[c] - A[Shift(c, idir, -1)]
           dc == A[Shift(c, idir, 1)] - A[Shift(c, idir, -1)]
       IN IF Sgn(dp) * Sgn(dm) > 0
          THEN Sgn(dc) * Min3(FixMul(Half, Abs(dc)), 2 * Abs(dp), 2 * Abs(dm))
          ELSE 0
Limit2(g, idir, A) == [c \in Cells(g) |-> Limit2Cell(g, idir, A, c)]

\* the 4th-order MC limiter, built on the 2nd-order slopes temp of the two
\* neighbours
Limit4Cell(g, idir, A, temp, c) ==
  IF ~Fits(g, c, idir, 1) THEN 0
  ELSE LET dp == A[Shift(c, idir, 1)] - A[c]
           dm == A[c] - A[Shift(c, idir, -1)]
           dc == A[Shift(c, idir, 1)] - A[Shift(c, idir, -1)]
           d4 == dc - FixMul(Quarter, temp[Shift(c, idir, 1)] + temp[Shift(c, idir, -1)])
       IN IF Sgn(dp) * Sgn(dm) > 0
          THEN Sgn(dc) * Min3(FixMul(TwoThirds, Abs(d4)), 2 * Abs(dp), 2 * Abs(dm))
          ELSE 0
Limit4(g, idir, A) ==
  LET temp == Limit2(g, idir, A)
  IN [c \in Cells(g) |-> Limit4Cell(g, idir, A, temp, c)]

\* reconstruction.limit(a, myg, idir, limiter) of fluxes: limiter 0 is no
\* limiting, 1 the 2nd-order and 2 the 4th-order MC limiter
Limit(g, idir, A, limiter) ==
  CASE limiter = 0 -> [c \in Cells(g) |-> NoLimitCell(g, idir, A, c)]
    [] limiter = 1 -> Limit2(g, idir, A)
    [] OTHER -> Limit4(g, idir, A)

\* a slope that adds the flattening coefficient instead of scaling by it
ScaleSlopeSum(x, lim) == x + lim

\* lines 207-210 (and 260-263; fluxes.py 147-148): the slope handed on is
\* xi times the limiter output
ScaleSlope(x, lim) == FixMul(x, lim)
\* the four limited slopes of every cell along idir, as ldelta[c] = <<ldelta_r,
\* ldelta_u, ldelta_v, ldelta_p>>, with the 4th-order limiter
LimitedSlopes4(g, idir, Q, X) ==
  LET lr == Limit4(g, idir, Comp(g, Q, irho))
      lu == Limit4(g, idir, Comp(g, Q, iu))
      lv == Limit4(g, idir, Comp(g, Q, iv))
      lp == Limit4(g, idir, Comp(g, Q, ip))
  IN [c \in Cells(g) |-> <<ScaleSlope(X[c], lr[c]), ScaleSlope(X[c], lu[c]),
                           ScaleSlope(X[c], lv[c]), ScaleSlope(X[c], lp[c])>>]

\* ----------------------------------------------------- interface states
Dot4(a, b) == FixMul(a[1], b[1]) + FixMul(a[2], b[2]) + FixMul(a[3], b[3]) + FixMul(a[4], b[4])
Add4(a, b) == <<a[1] + b[1], a[2] + b[2], a[3] + b[3], a[4] + b[4]>>
Sub4(a, b) == <<a[1] - b[1], a[2] - b[2], a[3] - b[3], a[4] - b[4]>>
Scale4(f, a) == <<FixMul(f, a[1]), FixMul(f, a[2]), FixMul(f, a[3]), FixMul(f, a[4])>>

\* line 521: the sound speed of a zone
SoundSpeed(V) == FixSqrt(FixDiv(FixMul(gamma, V[ip]), V[irho]))

\* eigenvalues that take the x velocity in both sweeps
EvalXOnly(idir, V) ==
  <<V[iu] - SoundSpeed(V), V[iu], V[iu], V[iu] + SoundSpeed(V)>>

\* lines 527-551: eigenvalues and left/right eigenvectors of a zone, projected
\* on direction idir; lvec[m] and rvec[m] are the rows of the matrices
Eval(idir, V) ==
  LET cs == SoundSpeed(V)
      un == IF idir = 1 THEN V[iu] ELSE V[iv]
  IN <<un - cs, un, un, un + cs>>
Lvec(idir, V) ==
  LET cs == SoundSpeed(V)
      r == V[irho]
      a == FixDiv(FixMul(Half, r), cs)
      b == FixDiv(Half, FixMul(cs, cs))
      c == FixDiv(One, FixMul(cs, cs))
  IN IF idir = 1
     THEN << <<0, -a, 0, b>>, <<One, 0, 0, -c>>, <<0, 0, One, 0>>, <<0, a, 0, b>> >>
     ELSE << <<0, 0, -a, b>>, <<One, 0, 0, -c>>, <<0, One, 0, 0>>, <<0, 0, a, b>> >>
Rvec(idir, V) ==
  LET cs == SoundSpeed(V)
      r == V[irho]
      a == FixDiv(cs, r)
      b == FixMul(cs, cs)
  IN IF idir = 1
     THEN << <<One, -a, 0, b>>, <<One, 0, 0, 0>>, <<0, 0, One, 0>>, <<One, a, 0, b>> >>
     ELSE << <<One, 0, -a, b>>, <<One, 0, 0, 0>>, <<0, One, 0, 0>>, <<One, 0, a, b>> >>

\* a reference factor without the one half
FactorLWhole(dtdx, ev) == One - FixMul(dtdx, Max(ev[4], 0))

\* lines 559 and 564 (569, 572): the factors of the reference states
FactorL(dtdx, ev) == FixMul(Half, One - FixMul(dtdx, Max(ev[4], 0)))
FactorR(dtdx, ev) == FixMul(Half, One + FixMul(dtdx, Min(ev[1], 0)))

\* a coefficient that takes every wave, whatever its direction
BetalOfAllWaves(dtdx4, ev, m, sum) ==
  FixMul(FixMul(FixMul(dtdx4, ev[4] - ev[m]), 2 * One), sum)

\* lines 588-589: the coefficient of characteristic field m = 1..4, sum
\* being numpy.dot(lvec[m,:], dV[:]) (eval[3] of the code is ev[4], eval[0]
\* is ev[1])
BetalOf(dtdx4, ev, m, sum) ==
  FixMul(FixMul(FixMul(dtdx4, ev[4] - ev[m]), (Sgn(ev[m]) + 1) * One), sum)
BetarOf(dtdx4, ev, m, sum) ==
  FixMul(FixMul(FixMul(dtdx4, ev[1] - ev[m]), (1 - Sgn(ev[m])) * One), sum)
Betal(dtdx4, ev, lv, dV) ==
  <<BetalOf(dtdx4, ev, 1, Dot4(lv[1], dV)), BetalOf(dtdx4, ev, 2, Dot4(lv[2], dV)),
    BetalOf(dtdx4, ev, 3, Dot4(lv[3], dV)), BetalOf(dtdx4, ev, 4, Dot4(lv[4], dV))>>
Betar(dtdx4, ev, lv, dV) ==
  <<BetarOf(dtdx4, ev, 1, Dot4(lv[1], dV)), BetarOf(dtdx4, ev, 2, Dot4(lv[2], dV)),
    BetarOf(dtdx4, ev, 3, Dot4(lv[3], dV)), BetarOf(dtdx4, ev, 4, Dot4(lv[4], dV))>>
\* lines 595-596: numpy.dot(beta[:], rvec[:, m])
BetaDotR(beta, rv, m) ==
  FixMul(beta[1], rv[1][m]) + FixMul(beta[2], rv[2][m]) + FixMul(beta[3], rv[3][m]) + FixMul(beta[4], rv[4][m])

\* lines 517-605 for one zone with state V and slopes dV: the left state at
\* the zone's high face and the right state at its low face
ZoneLeft(idir, dtdx, V, dV) ==
  LET ev == Eval(idir, V)
      beta == Betal(FixMul(Quarter, dtdx), ev, Lvec(idir, V), dV)
      rv == Rvec(idir, V)
      ref == Add4(V, Scale4(FactorL(dtdx, ev), dV))
  IN <<ref[1] + BetaDotR(beta, rv, 1), ref[2] + BetaDotR(beta, rv, 2),
       ref[3] + BetaDotR(beta, rv, 3), ref[4] + BetaDotR(beta, rv, 4)>>
ZoneRight(idir, dtdx, V, dV) ==
  LET ev == Eval(idir, V)
      beta == Betar(FixMul(Quarter, dtdx), ev, Lvec(idir, V), dV)
      rv == Rvec(idir, V)
      ref == Sub4(V, Scale4(FactorR(dtdx, ev), dV))
  IN <<ref[1] + BetaDotR(beta, rv, 1), ref[2] + BetaDotR(beta, rv, 2),
       ref[3] + BetaDotR(beta, rv, 3), ref[4] + BetaDotR(beta, rv, 4)>>

\* a left state stored at the zone's own index
LeftTargetOwn(idir, i, j) == <<i, j>>

\* lines 560/570 and 565/573: the entries of V_l and V_r that zone (i, j)
\* writes in sweep idir
LeftTarget(idir, i, j) == IF idir = 1 THEN <<i + 1, j>> ELSE <<i, j + 1>>
RightTarget(idir, i, j) == <<i, j>>

\* lines 508-512: the zones of the loop, in the order of the loop (j outer,
\* i inner), from (ilo-2, jlo-2) to (ihi+2, jhi+2)
LoopWidth(g) == Ihi(g) - Ilo(g) + 5
LoopCount(g) == LoopWidth(g) * (Jhi(g) - Jlo(g) + 5)
LoopZone(g, k) == <<Ilo(g) - 2 + ((k - 1) % LoopWidth(g)), Jlo(g) - 2 + ((k - 1) \div LoopWidth(g))>>
LoopZones(g) == {LoopZone(g, k) : k \in 1 .. LoopCount(g)}

\* lines 500-503: dt/dx of the sweep
DtDx(g, idir, tstep) == IF idir = 1 THEN FixDiv(tstep, g.dx) ELSE FixDiv(tstep, g.dy)

\* whether the writes of zone z raise IndexError
ZoneWriteOk(g, idir, z) ==
  /\ CellOk(g, LeftTarget(idir, z[1], z[2])[1], LeftTarget(idir, z[1], z[2])[2])
  /\ CellOk(g, RightTarget(idir, z[1], z[2])[1], RightTarget(idir, z[1], z[2])[2])

\* the array entry a zone's write lands on (Python index semantics)
Landing(g, t) == <<Wrap(t[1], Qx(g)), Wrap(t[2], Qy(g))>>
\* the iterations of the zone loop that write entry c of V_l (of V_r)
LeftWriters(g, idir, c) ==
  {k \in 1 .. LoopCount(g) : Landing(g, LeftTarget(idir, LoopZone(g, k)[1], LoopZone(g, k)[2])) = c}
RightWriters(g, idir, c) ==
  {k \in 1 .. LoopCount(g) : Landing(g, RightTarget(idir, LoopZone(g, k)[1], LoopZone(g, k)[2])) = c}
Last(S) == CHOOSE k \in S : \A m \in S : m <= k

\* interfaceStates(idir, myg, dt, r, u, v, p, ldelta_*): V_l and V_r start as
\* zeros (lines 445-446); an entry ends with what the last iteration writing
\* it left there.  Defined when no write raises.
StatesOk(g, idir) == \A z \in LoopZones(g) : ZoneWriteOk(g, idir, z)
InterfaceStates(g, idir, tstep, Q, LD) ==
  LET dtdx == DtDx(g, idir, tstep)
  IN [l |-> [c \in Cells(g) |->
               LET W == LeftWriters(g, idir, c)
               IN IF W = {} THEN Zero4
                  ELSE ZoneLeft(idir, dtdx, Q[LoopZone(g, Last(W))], LD[LoopZone(g, Last(W))])],
      r |-> [c \in Cells(g) |->
               LET W == RightWriters(g, idir, c)
               IN IF W = {} THEN Zero4
                  ELSE ZoneRight(idir, dtdx, Q[LoopZone(g, Last(W))], LD[LoopZone(g, Last(W))])]]

\* -------------------------------------------------------- Riemann solver
\* the analytic flux of a conserved state through a face normal to idir
AnalyticFlux(idir, Uc) ==
  LET V == ConsToPrimCell(Uc)
      un == IF idir = 1 THEN V[iu] ELSE V[iv]
  IN <<FixMul(Uc[idens], un),
       FixMul(Uc[ixmom], un) + (IF idir = 1 THEN V[ip] ELSE 0),
       FixMul(Uc[iymom], un) + (IF idir = 2 THEN V[ip] ELSE 0),
       FixMul(Uc[iener] + V[ip], un)>>
\* the solver as a pure function (stateL, stateR) -> flux of one interface:
\* the mean of the two analytic fluxes, which is the analytic flux when the
\* two states agree
RiemannFlux(idir, UL, UR) ==
  Scale4(Half, Add4(AnalyticFlux(idir, UL), AnalyticFlux(idir, UR)))
\* the interfaces the solver resolves: the interior extended by one ghost cell
RiemannRange(g) == (Ilo(g) - 1 .. Ihi(g) + 1) \X (Jlo(g) - 1 .. Jhi(g) + 1)
\* interface_f.riemann(idir, qx, qy, ng, ..., gamma, U_l, U_r): the flux
\* array, one solve per interface of the range, zero elsewhere
Riemann(g, idir, UL, UR) ==
  [c \in Cells(g) |-> IF c \in RiemannRange(g) THEN RiemannFlux(idir, UL[c], UR[c]) ELSE Zero4]

\* --------------------------------------------------- transverse correction
\* 0.5*dt/myg.dy (0.5*dt/myg.dx) of lines 385-394
HalfDtOver(tstep, h) == FixDiv(FixMul(Half, tstep), h)

\* the array entries iteration (i, j) of the loop reads besides its own:
\* lines 385, 388, 391, 394
CorrReads(i, j) ==
  {<<i - 1, j + 1>>, <<i - 1, j>>, <<i, j + 1>>, <<i, j>>, <<i + 1, j - 1>>, <<i, j - 1>>, <<i + 1, j>>}
CorrectOk(g) == \A z \in LoopZones(g) : \A r \in CorrReads(z[1], z[2]) : CellOk(g, r[1], r[2])

\* the y-left statement of the loop body taking its flux difference from
\* row j instead of row j-1
CorrYlSameRow(g, tstep, Uc, Fx, i, j, n) ==
  Uc[n] - FixMul(FixDiv(FixMul(Half, tstep), g.dx), At(g, Fx, i + 1, j)[n] - At(g, Fx, i, j)[n])

\* the x-right statement of the loop body adding its two fluxes instead of
\* differencing them
CorrXrSum(g, tstep, Uc, Fy, i, j, n) ==
  Uc[n] - FixMul(HalfDtOver(tstep, g.dy), At(g, Fy, i, j + 1)[n] + At(g, Fy, i, j)[n])

\* lines 384-394: the four statements of the loop body for component n
CorrXl(g, tstep, Uc, Fy, i, j, n) ==
  Uc[n] - FixMul(HalfDtOver(tstep, g.dy), At(g, Fy, i - 1, j + 1)[n] - At(g, Fy, i - 1, j)[n])
CorrXr(g, tstep, Uc, Fy, i, j, n) ==
  Uc[n] - FixMul(HalfDtOver(tstep, g.dy), At(g, Fy, i, j + 1)[n] - At(g, Fy, i, j)[n])
CorrYl(g, tstep, Uc, Fx, i, j, n) ==
  Uc[n] - FixMul(HalfDtOver(tstep, g.dx), At(g, Fx, i + 1, j - 1)[n] - At(g, Fx, i, j - 1)[n])
CorrYr(g, tstep, Uc, Fx, i, j, n) ==
  Uc[n] - FixMul(HalfDtOver(tstep, g.dx), At(g, Fx, i + 1, j)[n] - At(g, Fx, i, j)[n])

\* an iteration that takes the x-left state of the zone to its left
CorrStepFromNeighbour(g, tstep, S, Fx, Fy, z, n) ==
  [xl |-> [S.xl EXCEPT ![z][n] = CorrXl(g, tstep, At(g, S.xl, z[1] - 1, z[2]), Fy, z[1], z[2], n)],
   xr |-> [S.xr EXCEPT ![z][n] = CorrXr(g, tstep, S.xr[z], Fy, z[1], z[2], n)],
   yl |-> [S.yl EXCEPT ![z][n] = CorrYl(g, tstep, S.yl[z], Fx, z[1], z[2], n)],
   yr |-> [S.yr EXCEPT ![z][n] = CorrYr(g, tstep, S.yr[z], Fx, z[1], z[2], n)]]

\* lines 384-394: iteration (i, j, n) of the loop as one step on the four
\* state arrays S, assigning in place; F_x and F_y are only read
CorrStep(g, tstep, S, Fx, Fy, z, n) ==
  [xl |-> [S.xl EXCEPT ![z][n] = CorrXl(g, tstep, S.xl[z], Fy, z[1], z[2], n)],
   xr |-> [S.xr EXCEPT ![z][n] = CorrXr(g, tstep, S.xr[z], Fy, z[1], z[2], n)],
   yl |-> [S.yl EXCEPT ![z][n] = CorrYl(g, tstep, S.yl[z], Fx, z[1], z[2], n)],
   yr |-> [S.yr EXCEPT ![z][n] = CorrYr(g, tstep, S.yr[z], Fx, z[1], z[2], n)]]
\* lines 375-398: the iterations taken one after the other, iteration t being
\* the triple order[t] = <<i, j, n>>
RECURSIVE CorrSeq(_, _, _, _, _, _, _)
CorrSeq(g, tstep, S, Fx, Fy, order, t) ==
  IF t > Len(order) THEN S
  ELSE CorrSeq(g, tstep, CorrStep(g, tstep, S, Fx, Fy, <<order[t][1], order[t][2]>>, order[t][3]),
               Fx, Fy, order, t + 1)
\* lines 375-377: the order of the code, j outermost, then i, then n
LoopOrder(g) ==
  [t \in 1 .. nvar * LoopCount(g) |->
     <<LoopZone(g, ((t - 1) \div nvar) + 1)[1], LoopZone(g, ((t - 1) \div nvar) + 1)[2], ((t - 1) % nvar) + 1>>]

\* lines 375-398: the loop.  Iteration (i, j, n) reads and writes only entry
\* (i, j, n) of the state arrays, and the flux arrays are not written, so an
\* entry is corrected once for every iteration of the loop that visits it.
Visits(g, c) == Cardinality({k \in 1 .. LoopCount(g) : LoopZone(g, k) = c})
CorrectXl(g, tstep, Uxl, Fy) ==
  [c \in Cells(g) |->
     IF c \in LoopZones(g)
     THEN <<CorrXl(g, tstep, Uxl[c], Fy, c[1], c[2], 1), CorrXl(g, tstep, Uxl[c], Fy, c[1], c[2], 2),
            CorrXl(g, tstep, Uxl[c], Fy, c[1], c[2], 3), CorrXl(g, tstep, Uxl[c], Fy, c[1], c[2], 4)>>
     ELSE Uxl[c]]
CorrectXr(g, tstep, Uxr, Fy) ==
  [c \in Cells(g) |->
     IF c \in LoopZones(g)
     THEN <<CorrXr(g, tstep, Uxr[c], Fy, c[1], c[2], 1), CorrXr(g, tstep, Uxr[c], Fy, c[1], c[2], 2),
            CorrXr(g, tstep, Uxr[c], Fy, c[1], c[2], 3), CorrXr(g, tstep, Uxr[c], Fy, c[1], c[2], 4)>>
     ELSE Uxr[c]]
CorrectYl(g, tstep, Uyl, Fx) ==
  [c \in Cells(g) |->
     IF c \in LoopZones(g)
     THEN <<CorrYl(g, tstep, Uyl[c], Fx, c[1], c[2], 1), CorrYl(g, tstep, Uyl[c], Fx, c[1], c[2], 2),
            CorrYl(g, tstep, Uyl[c], Fx, c[1], c[2], 3), CorrYl(g, tstep, Uyl[c], Fx, c[1], c[2], 4)>>
     ELSE Uyl[c]]
CorrectYr(g, tstep, Uyr, Fx) ==
  [c \in Cells(g) |->
     IF c \in LoopZones(g)
     THEN <<CorrYr(g, tstep, Uyr[c], Fx, c[1], c[2], 1), CorrYr(g, tstep, Uyr[c], Fx, c[1], c[2], 2),
            CorrYr(g, tstep, Uyr[c], Fx, c[1], c[2], 3), CorrYr(g, tstep, Uyr[c], Fx, c[1], c[2], 4)>>
     ELSE Uyr[c]]

\* ------------------------------------------- the method-of-lines variant
\* mesh.array_indexer: the cells of A.v(buf=b) are (ilo-blo .. ihi+bhi) x
\* (jlo-blo .. jhi+bhi); A.ip(s, buf=b) and A.jp(s, buf=b) are the same
\* block shifted by s cells in x or in y
Block(g, blo, bhi) == (Ilo(g) - blo .. Ihi(g) + bhi) \X (Jlo(g) - blo .. Jhi(g) + bhi)
\* a shifted block must lie inside the array: numpy clips a slice that
\* leaves it, and the assignment then fails on the shapes
BlockOk(g, blo, bhi, idir, s) ==
  \A c \in Block(g, blo, bhi) : Shift(c, idir, s) \in Cells(g)

\* fluxes.py lines 146-148: ldx or ldy, the slopes of the four primitive
\* variables along idir, with the configured limiter
LimitedSlopes(g, idir, Q, X, limiter) ==
  LET lr == Limit(g, idir, Comp(g, Q, irho), limiter)
      lu == Limit(g, idir, Comp(g, Q, iu), limiter)
      lv == Limit(g, idir, Comp(g, Q, iv), limiter)
      lp == Limit(g, idir, Comp(g, Q, ip), limiter)
  IN [c \in Cells(g) |-> <<ScaleSlope(X[c], lr[c]), ScaleSlope(X[c], lu[c]),
                           ScaleSlope(X[c], lv[c]), ScaleSlope(X[c], lp[c])>>]

\* fluxes.py lines 165-166 (184-185): the space-only interface states of one
\* zone
RkLeft(V, dV) == Add4(V, Scale4(Half, dV))
RkRight(V, dV) == Sub4(V, Scale4(Half, dV))
\* right states stored one cell up the sweep direction, like the left ones
RkStatesRShifted(g, idir, Q, LD, Vr) ==
  [c \in Cells(g) |->
     IF Shift(c, idir, -1) \in Block(g, 2, 2)
     THEN RkRight(Q[Shift(c, idir, -1)], LD[Shift(c, idir, -1)])
     ELSE Vr[c]]

\* fluxes.py lines 164-166 and 183-185: V_l.ip(1, buf=2) (V_l.jp(1, buf=2))
\* and V_r.v(buf=2) are assigned from q.v(buf=2) and the slopes; the other
\* entries of the two arrays keep what they held
RkStatesL(g, idir, Q, LD, Vl) ==
  [c \in Cells(g) |->
     IF Shift(c, idir, -1) \in Block(g, 2, 2)
     THEN RkLeft(Q[Shift(c, idir, -1)], LD[Shift(c, idir, -1)])
     ELSE Vl[c]]
RkStatesR(g, idir, Q, LD, Vr) ==
  [c \in Cells(g) |-> IF c \in Block(g, 2, 2) THEN RkRight(Q[c], LD[c]) ELSE Vr[c]]

\* interface_f.artificial_viscosity: the coefficient on the low x (y) face
\* of a cell, cvisc times the compression -div(U) h where the flow
\* converges, zero where it does not
DivUx(g, Q, c) ==
  FixDiv(Q[c][iu] - Q[Shift(c, 1, -1)][iu], g.dx)
  + FixDiv(FixMul(Quarter, Q[Shift(c, 2, 1)][iv] + Q[Shift(Shift(c, 2, 1), 1, -1)][iv]
                           - Q[Shift(c, 2, -1)][iv] - Q[Shift(Shift(c, 2, -1), 1, -1)][iv]), g.dy)
DivUy(g, Q, c) ==
  FixDiv(FixMul(Quarter, Q[Shift(c, 1, 1)][iu] + Q[Shift(Shift(c, 1, 1), 2, -1)][iu]
                         - Q[Shift(c, 1, -1)][iu] - Q[Shift(Shift(c, 1, -1), 2, -1)][iu]), g.dx)
  + FixDiv(Q[c][iv] - Q[Shift(c, 2, -1)][iv], g.dy)
Avisco(g, idir, cvisc, Q) ==
  [c \in Cells(g) |->
     IF c \in RiemannRange(g)
     THEN IF idir = 1 THEN FixMul(cvisc, Max(-FixMul(DivUx(g, Q, c), g.dx), 0))
                      ELSE FixMul(cvisc, Max(-FixMul(DivUy(g, Q, c), g.dy), 0))
     ELSE 0]

\* a viscosity pass that differences toward the high neighbour
AddViscosityForward(g, idir, F, av, UU) ==
  [c \in Cells(g) |->
     IF c \in Block(g, 2, 1) THEN <<F[c][1] + FixMul(av[c], UU[Shift(c, idir, 1)][1] - UU[c][1]),
                                     F[c][2] + FixMul(av[c], UU[Shift(c, idir, 1)][2] - UU[c][2]),
                                     F[c][3] + FixMul(av[c], UU[Shift(c, idir, 1)][3] - UU[c][3]),
                                     F[c][4] + FixMul(av[c], UU[Shift(c, idir, 1)][4] - UU[c][4])>>
     ELSE F[c]]

\* fluxes.py lines 238-249: F.v(buf=(2,1), n=n) += avisco.v(buf=(2,1)) *
\* (var.ip(-1, buf=(2,1)) - var.v(buf=(2,1))) for every component n (jp in y)
ViscFlux(Fc, av, Ulow, Uc) ==
  <<Fc[1] + FixMul(av, Ulow[1] - Uc[1]), Fc[2] + FixMul(av, Ulow[2] - Uc[2]),
    Fc[3] + FixMul(av, Ulow[3] - Uc[3]), Fc[4] + FixMul(av, Ulow[4] - Uc[4])>>
AddViscosity(g, idir, F, av, UU) ==
  [c \in Cells(g) |->
     IF c \in Block(g, 2, 1) THEN ViscFlux(F[c], av[c], UU[Shift(c, idir, -1)], UU[c]) ELSE F[c]]

\* the runtime parameters fluxes reads
Solvers == {"HLLC", "CGF"}
DefaultCfg == [riemann |-> "HLLC", limiter |-> 2, use_flattening |-> TRUE, cvisc |-> One]
Configs ==
  {[DefaultCfg EXCEPT !.riemann = r] : r \in {"HLLC", "CGF", "HLL", ""}}
  \cup {[DefaultCfg EXCEPT !.limiter = l] : l \in 0 .. 2}
  \cup {[DefaultCfg EXCEPT !.use_flattening = FALSE], [DefaultCfg EXCEPT !.cvisc = 0]}

\* ------------------------------------------------------------ the inputs
\* the caller's fields: a primitive profile per kind, scaled by amp, put in
\* conserved form; "vacuum" takes energy away so that the EOS pressure of
\* the input is negative
\* a smoothed pressure step
Ramp(x) == IF x <= -2 THEN 0 ELSE IF x = -1 THEN 10 ELSE IF x = 0 THEN 50 ELSE IF x = 1 THEN 90 ELSE 100
\* a lopsided pulse
Bump(x) == IF x = 0 THEN 30 ELSE IF x = 1 THEN 10 ELSE 0
FieldKinds == {"uniform", "advx", "advy", "acoustic", "shockx", "shocky", "mixed", "vacuum", "pulse", "supersonic", "drift"}
PrimProfile(kind, amp, g, i, j) ==
  LET x == i - g.ng
      y == j - g.ng
  IN CASE kind = "uniform" -> <<One, 0, 0, One>>
       [] kind = "advx" -> <<One + 10 * amp * x * x, 30 * amp, 0, One>>
       [] kind = "advy" -> <<One + 10 * amp * y * y, 0, -30 * amp, One>>
       [] kind = "acoustic" -> <<One + 5 * amp * (x + 4), 10 * amp * x, 10 * amp * y, One + 3 * amp * (x + 4) * (x + 4)>>
       [] kind = "shockx" -> <<One + 20 * amp * (IF x >= 0 THEN 1 ELSE 0), -20 * amp * x, 0, One + amp * Ramp(x)>>
       [] kind = "shocky" -> <<One, 10 * amp, 20 * amp * (IF y >= 1 THEN -1 ELSE 1), One + 40 * amp * (IF y >= 1 THEN 2 ELSE 0) + amp * y>>
       [] kind = "mixed" -> <<One + 4 * amp * (x + 2 * y + 12), 15 * amp * (y - 1), 15 * amp * (1 - x), One + 2 * amp * (x * x + y * y + x * y)>>
       [] kind = "pulse" -> <<One + amp * (Bump(x) + Bump(y)), -10 * amp * x, -10 * amp * y, One>>
       [] kind = "vacuum" -> <<One - 10 * amp, 2 * One, 5 * amp * x, One>>
       [] kind = "drift" -> <<One + 20 * amp, 30 * amp, -20 * amp, One + 50 * amp>>
       [] kind = "supersonic" -> <<One + amp * (Bump(x) + Bump(y)), -3 * One + 120 * amp * Max(x, 0), -3 * One - 20 * amp * y + 20 * amp * Max(x - 1, 0), One + 2 * amp * (x + y + 8)>>
EnergyDeficit(kind) == IF kind = "vacuum" THEN 4 * One ELSE 0
\* the caller's conserved data of a cell whose primitive profile is V
CallerCell(V) ==
  <<V[1], FixMul(V[1], V[2]), FixMul(V[1], V[3]),
    FixDiv(V[4], gamma - One) + FixMul(FixMul(Half, V[1]), FixMul(V[2], V[2]) + FixMul(V[3], V[3]))>>
Field(kind, amp, g) ==
  [c \in Cells(g) |->
     LET Uc == CallerCell(PrimProfile(kind, amp, g, c[1], c[2]))
     IN [Uc EXCEPT ![iener] = @ - EnergyDeficit(kind)]]

Grids == {g \in [nx : 1 .. MaxExtent, ny : 1 .. MaxExtent, ng : MinNg .. MaxNg, dx : {One}, dy : {2 * One}] :
            g.nx + g.ny <= MaxExtent}
TimeSteps == {0, Half}

\* ------------------------------------------------------------- the state
VARIABLES
  routine,   \* "unsplit": unsplitFluxes, "rk": fluxes
  grid,      \* myData.grid
  dt,        \* the time step handed to unsplitFluxes
  cfg,       \* the runtime parameters (rp) handed to fluxes
  U,         \* the caller's conserved arrays (myData), cell -> 4-tuple
  pc,        \* the position in the routine
  q,         \* r, u, v, p
  xi,        \* the flattening coefficient
  ldelta,    \* ldelta_r, ldelta_u, ldelta_v, ldelta_p of the current sweep
  ldx, ldy,  \* the slopes of fluxes
  solver,    \* riemannFunc of fluxes: "none" until it is bound
  used,      \* the solver each direction of fluxes was solved with
  V_l, V_r,
  U_xl, U_xr, U_yl, U_yr,
  F_x, F_y,
  ret,       \* what the call returned: <<>> until it returns <<F_x, F_y>>
  U0,        \* history: the caller's arrays when the call began
  log,       \* history: the stages performed so far, in order
  pre,       \* history: U_xl, U_xr, U_yl, U_yr, F_x, F_y as the correction loop found them
  ncorr,     \* history: how often the correction loop has corrected each cell
  nriem      \* history: the Riemann solves of each interface, per direction

vars == <<routine, grid, dt, cfg, U, pc, q, xi, ldelta, ldx, ldy, solver, used, V_l, V_r,
          U_xl, U_xr, U_yl, U_yr, F_x, F_y, ret, U0, log, pre, ncorr, nriem>>

\* the fields and parameters a call of fluxes is given
RkFieldKinds == {"uniform", "shockx", "pulse", "supersonic"}
\* the options the callers of unsplitFluxes set in their parameter files
UnsplitConfigs == {DefaultCfg, [DefaultCfg EXCEPT !.limiter = 1], [DefaultCfg EXCEPT !.use_flattening = FALSE]}

Init ==
  /\ grid \in Grids
  /\ \/ /\ routine = "unsplit"
        /\ dt \in TimeSteps
        /\ cfg \in UnsplitConfigs
        /\ \E kind \in FieldKinds : U = Field(kind, 1, grid)
     \/ /\ routine = "rk"
        /\ dt = 0
        /\ cfg \in Configs
        /\ \E kind \in RkFieldKinds : U = Field(kind, 1, grid)
  /\ ldx = Zeros(grid)
  /\ ldy = Zeros(grid)
  /\ solver = "none"
  /\ used = <<"none", "none">>
  /\ pc = "start"
  /\ q = Zeros(grid)
  /\ xi = Zeros1(grid)
  /\ ldelta = Zeros(grid)
  /\ V_l = Zeros(grid)
  /\ V_r = Zeros(grid)
  /\ U_xl = Zeros(grid)
  /\ U_xr = Zeros(grid)
  /\ U_yl = Zeros(grid)
  /\ U_yr = Zeros(grid)
  /\ F_x = Zeros(grid)
  /\ F_y = Zeros(grid)
  /\ ret = <<>>
  /\ U0 = U
  /\ log = <<>>
  /\ pre = <<>>
  /\ ncorr = Zeros1(grid)
  /\ nriem = <<Zeros1(grid), Zeros1(grid)>>

\* lines 154-171 of unsplitFluxes: the primitive variables
Prim ==
  /\ routine = "unsplit" /\ pc = "start"
  /\ q' = [c \in Cells(grid) |-> ConsToPrimCell(U[c])]
  /\ pc' = "flatten"
  /\ log' = Append(log, "prim")
  /\ UNCHANGED <<routine, grid, dt, cfg, ldx, ldy, solver, used, U, xi, ldelta, V_l, V_r, U_xl, U_xr, U_yl, U_yr, F_x, F_y, ret, U0, pre, ncorr, nriem>>

\* lines 178-191: the flattening coefficients
FlattenStage ==
  /\ routine = "unsplit" /\ pc = "flatten"
  /\ LET P == Comp(grid, q, ip)
         xi_x == Flatten(grid, 1, P, Comp(grid, q, iu))
         xi_y == Flatten(grid, 2, P, Comp(grid, q, iv))
     IN xi' = FlattenMultid(grid, xi_x, xi_y, P)
  /\ pc' = "limit_x"
  /\ log' = Append(log, "flatten")
  /\ UNCHANGED <<routine, grid, dt, cfg, ldx, ldy, solver, used, U, q, ldelta, V_l, V_r, U_xl, U_xr, U_yl, U_yr, F_x, F_y, ret, U0, pre, ncorr, nriem>>

\* lines 198-212: monotonized central differences in the x-direction
LimitX ==
  /\ routine = "unsplit" /\ pc = "limit_x"
  /\ ldelta' = LimitedSlopes4(grid, 1, q, xi)
  /\ pc' = "states_x"
  /\ log' = Append(log, "limit_x")
  /\ UNCHANGED <<routine, grid, dt, cfg, ldx, ldy, solver, used, U, q, xi, V_l, V_r, U_xl, U_xr, U_yl, U_yr, F_x, F_y, ret, U0, pre, ncorr, nriem>>

\* lines 214-232: the left and right primitive states, x-direction
StatesX ==
  /\ routine = "unsplit" /\ pc = "states_x"
  /\ StatesOk(grid, 1) = TRUE
  /\ LET VV == InterfaceStates(grid, 1, dt, q, ldelta)
     IN V_l' = VV.l /\ V_r' = VV.r
  /\ pc' = "cons_x"
  /\ log' = Append(log, "states_x")
  /\ UNCHANGED <<routine, grid, dt, cfg, ldx, ldy, solver, used, U, q, xi, ldelta, U_xl, U_xr, U_yl, U_yr, F_x, F_y, ret, U0, pre, ncorr, nriem>>

\* a write of the zone loop is out of range: the call ends with IndexError
StatesXError ==
  /\ routine = "unsplit" /\ pc = "states_x"
  /\ ~StatesOk(grid, 1)
  /\ pc' = "error"
  /\ UNCHANGED <<routine, grid, dt, cfg, ldx, ldy, solver, used, U, q, xi, ldelta, V_l, V_r, U_xl, U_xr, U_yl, U_yr, F_x, F_y, ret, U0, log, pre, ncorr, nriem>>

\* lines 235-249: the x interface states in conserved form
ConsX ==
  /\ routine = "unsplit" /\ pc = "cons_x"
  /\ U_xl' = PrimToCons(grid, V_l)
  /\ U_xr' = PrimToCons(grid, V_r)
  /\ pc' = "limit_y"
  /\ log' = Append(log, "cons_x")
  /\ UNCHANGED <<routine, grid, dt, cfg, ldx, ldy, solver, used, U, q, xi, ldelta, V_l, V_r, U_yl, U_yr, F_x, F_y, ret, U0, pre, ncorr, nriem>>

\* lines 257-265: monotonized central differences in the y-direction
LimitY ==
  /\ routine = "unsplit" /\ pc = "limit_y"
  /\ ldelta' = LimitedSlopes4(grid, 2, q, xi)
  /\ pc' = "states_y"
  /\ log' = Append(log, "limit_y")
  /\ UNCHANGED <<routine, grid, dt, cfg, ldx, ldy, solver, used, U, q, xi, V_l, V_r, U_xl, U_xr, U_yl, U_yr, F_x, F_y, ret, U0, pre, ncorr, nriem>>

\* lines 267-280: the left and right primitive states, y-direction
StatesY ==
  /\ routine = "unsplit" /\ pc = "states_y"
  /\ StatesOk(grid, 2) = TRUE
  /\ LET VV == InterfaceStates(grid, 2, dt, q, ldelta)
     IN V_l' = VV.l /\ V_r' = VV.r
  /\ pc' = "cons_y"
  /\ log' = Append(log, "states_y")
  /\ UNCHANGED <<routine, grid, dt, cfg, ldx, ldy, solver, used, U, q, xi, ldelta, U_xl, U_xr, U_yl, U_yr, F_x, F_y, ret, U0, pre, ncorr, nriem>>

\* lines 283-297: the y interface states in conserved form
ConsY ==
  /\ routine = "unsplit" /\ pc = "cons_y"
  /\ U_yl' = PrimToCons(grid, V_l)
  /\ U_yr' = PrimToCons(grid, V_r)
  /\ pc' = "riemann_tx"
  /\ log' = Append(log, "cons_y")
  /\ UNCHANGED <<routine, grid, dt, cfg, ldx, ldy, solver, used, U, q, xi, ldelta, V_l, V_r, U_xl, U_xr, F_x, F_y, ret, U0, pre, ncorr, nriem>>

\* the solves of one call of the solver, added to the count
Solved(g, count) == [c \in Cells(g) |-> IF c \in RiemannRange(g) THEN count[c] + 1 ELSE count[c]]

\* lines 317-319: the transverse fluxes in x
RiemannTX ==
  /\ routine = "unsplit" /\ pc = "riemann_tx"
  /\ F_x' = Riemann(grid, 1, U_xl, U_xr)
  /\ nriem' = <<Solved(grid, nriem[1]), nriem[2]>>
  /\ pc' = "riemann_ty"
  /\ log' = Append(log, "riemann_x")
  /\ UNCHANGED <<routine, grid, dt, cfg, ldx, ldy, solver, used, U, q, xi, ldelta, V_l, V_r, U_xl, U_xr, U_yl, U_yr, F_y, ret, U0, pre, ncorr>>

\* lines 321-323: the transverse fluxes in y
RiemannTY ==
  /\ routine = "unsplit" /\ pc = "riemann_ty"
  /\ F_y' = Riemann(grid, 2, U_yl, U_yr)
  /\ nriem' = <<nriem[1], Solved(grid, nriem[2])>>
  /\ pc' = "correct"
  /\ log' = Append(log, "riemann_y")
  /\ UNCHANGED <<routine, grid, dt, cfg, ldx, ldy, solver, used, U, q, xi, ldelta, V_l, V_r, U_xl, U_xr, U_yl, U_yr, F_x, ret, U0, pre, ncorr>>

\* lines 374-398: the transverse correction of the four state arrays
Correct ==
  /\ routine = "unsplit" /\ pc = "correct"
  /\ CorrectOk(grid) = TRUE
  /\ U_xl' = CorrectXl(grid, dt, U_xl, F_y)
  /\ U_xr' = CorrectXr(grid, dt, U_xr, F_y)
  /\ U_yl' = CorrectYl(grid, dt, U_yl, F_x)
  /\ U_yr' = CorrectYr(grid, dt, U_yr, F_x)
  /\ pre' = [U_xl |-> U_xl, U_xr |-> U_xr, U_yl |-> U_yl, U_yr |-> U_yr, F_x |-> F_x, F_y |-> F_y]
  /\ ncorr' = [c \in Cells(grid) |-> ncorr[c] + Visits(grid, c)]
  /\ pc' = "riemann_fx"
  /\ log' = Append(log, "correct")
  /\ UNCHANGED <<routine, grid, dt, cfg, ldx, ldy, solver, used, U, q, xi, ldelta, V_l, V_r, F_x, F_y, ret, U0, nriem>>

\* lines 413-415: the fluxes normal to the x interfaces overwrite F_x
RiemannFX ==
  /\ routine = "unsplit" /\ pc = "riemann_fx"
  /\ F_x' = Riemann(grid, 1, U_xl, U_xr)
  /\ nriem' = <<Solved(grid, nriem[1]), nriem[2]>>
  /\ pc' = "riemann_fy"
  /\ log' = Append(log, "riemann_x")
  /\ UNCHANGED <<routine, grid, dt, cfg, ldx, ldy, solver, used, U, q, xi, ldelta, V_l, V_r, U_xl, U_xr, U_yl, U_yr, F_y, ret, U0, pre, ncorr>>

\* lines 417-419: the fluxes normal to the y interfaces overwrite F_y
\* a final y solve handed the x states
RiemannFYFromX ==
  /\ routine = "unsplit" /\ pc = "riemann_fy"
  /\ F_y' = Riemann(grid, 2, U_xl, U_xr)
  /\ nriem' = <<nriem[1], Solved(grid, nriem[2])>>
  /\ pc' = "return"
  /\ log' = Append(log, "riemann_y")
  /\ UNCHANGED <<routine, grid, dt, cfg, ldx, ldy, solver, used, U, q, xi, ldelta, V_l, V_r, U_xl, U_xr, U_yl, U_yr, F_x, ret, U0, pre, ncorr>>

RiemannFY ==
  /\ routine = "unsplit" /\ pc = "riemann_fy"
  /\ F_y' = Riemann(grid, 2, U_yl, U_yr)
  /\ nriem' = <<nriem[1], Solved(grid, nriem[2])>>
  /\ pc' = "return"
  /\ log' = Append(log, "riemann_y")
  /\ UNCHANGED <<routine, grid, dt, cfg, ldx, ldy, solver, used, U, q, xi, ldelta, V_l, V_r, U_xl, U_xr, U_yl, U_yr, F_x, ret, U0, pre, ncorr>>

\* line 429: return F_x, F_y
\* a return that hands back the transverse fluxes of the first solve
ReturnTransverse ==
  /\ routine = "unsplit" /\ pc = "return"
  /\ ret' = <<pre.F_x, pre.F_y>>
  /\ pc' = "done"
  /\ log' = Append(log, "return")
  /\ UNCHANGED <<routine, grid, dt, cfg, ldx, ldy, solver, used, U, q, xi, ldelta, V_l, V_r, U_xl, U_xr, U_yl, U_yr, F_x, F_y, U0, pre, ncorr, nriem>>

\* unsplitFluxes.py line 429: return F_x, F_y
Return ==
  /\ routine = "unsplit" /\ pc = "return"
  /\ ret' = <<F_x, F_y>>
  /\ pc' = "done"
  /\ log' = Append(log, "return")
  /\ UNCHANGED <<routine, grid, dt, cfg, ldx, ldy, solver, used, U, q, xi, ldelta, V_l, V_r, U_xl, U_xr, U_yl, U_yr, F_x, F_y, U0, pre, ncorr, nriem>>

\* ---- fluxes (compressible_rk/fluxes.py)
\* fluxes.py lines 113-118: the primitive variables
RkPrim ==
  /\ routine = "rk" /\ pc = "start"
  /\ q' = [c \in Cells(grid) |-> ConsToPrimCell(U[c])]
  /\ pc' = "flatten"
  /\ log' = Append(log, "prim")
  /\ UNCHANGED <<routine, grid, dt, cfg, U, xi, ldelta, ldx, ldy, solver, used, V_l, V_r, U_xl, U_xr, U_yl, U_yr, F_x, F_y, ret, U0, pre, ncorr, nriem>>

\* fluxes.py lines 126-134: the flattening coefficients, or xi = 1.0
RkFlatten ==
  /\ routine = "rk" /\ pc = "flatten"
  /\ IF cfg.use_flattening
     THEN LET P == Comp(grid, q, ip)
              xi_x == Flatten(grid, 1, P, Comp(grid, q, iu))
              xi_y == Flatten(grid, 2, P, Comp(grid, q, iv))
          IN xi' = FlattenMultid(grid, xi_x, xi_y, P)
     ELSE xi' = [c \in Cells(grid) |-> One]
  /\ pc' = "limit"
  /\ log' = Append(log, "flatten")
  /\ UNCHANGED <<routine, grid, dt, cfg, U, q, ldelta, ldx, ldy, solver, used, V_l, V_r, U_xl, U_xr, U_yl, U_yr, F_x, F_y, ret, U0, pre, ncorr, nriem>>

\* fluxes.py lines 141-150: the limited slopes in both directions
RkLimit ==
  /\ routine = "rk" /\ pc = "limit"
  /\ ldx' = LimitedSlopes(grid, 1, q, xi, cfg.limiter)
  /\ ldy' = LimitedSlopes(grid, 2, q, xi, cfg.limiter)
  /\ pc' = "states_x"
  /\ log' = Append(log, "limit")
  /\ UNCHANGED <<routine, grid, dt, cfg, U, q, xi, ldelta, solver, used, V_l, V_r, U_xl, U_xr, U_yl, U_yr, F_x, F_y, ret, U0, pre, ncorr, nriem>>

\* fluxes.py lines 161-173: the x interface states and their conserved form
RkStatesX ==
  /\ routine = "rk" /\ pc = "states_x"
  /\ BlockOk(grid, 2, 2, 1, 1) = TRUE
  /\ V_l' = RkStatesL(grid, 1, q, ldx, Zeros(grid))
  /\ V_r' = RkStatesR(grid, 1, q, ldx, Zeros(grid))
  /\ U_xl' = PrimToCons(grid, V_l')
  /\ U_xr' = PrimToCons(grid, V_r')
  /\ pc' = "states_y"
  /\ log' = Append(log, "states_x")
  /\ UNCHANGED <<routine, grid, dt, cfg, U, q, xi, ldelta, ldx, ldy, solver, used, U_yl, U_yr, F_x, F_y, ret, U0, pre, ncorr, nriem>>

\* the shifted block leaves the array: the assignment raises
RkStatesXError ==
  /\ routine = "rk" /\ pc = "states_x"
  /\ ~BlockOk(grid, 2, 2, 1, 1)
  /\ pc' = "error"
  /\ UNCHANGED <<routine, grid, dt, cfg, U, q, xi, ldelta, ldx, ldy, solver, used, V_l, V_r, U_xl, U_xr, U_yl, U_yr, F_x, F_y, ret, U0, log, pre, ncorr, nriem>>

\* fluxes.py lines 181-192: the y interface states, written into the same
\* V_l and V_r, and their conserved form
RkStatesY ==
  /\ routine = "rk" /\ pc = "states_y"
  /\ BlockOk(grid, 2, 2, 2, 1) = TRUE
  /\ V_l' = RkStatesL(grid, 2, q, ldy, V_l)
  /\ V_r' = RkStatesR(grid, 2, q, ldy, V_r)
  /\ U_yl' = PrimToCons(grid, V_l')
  /\ U_yr' = PrimToCons(grid, V_r')
  /\ pc' = "select"
  /\ log' = Append(log, "states_y")
  /\ UNCHANGED <<routine, grid, dt, cfg, U, q, xi, ldelta, ldx, ldy, solver, used, U_xl, U_xr, F_x, F_y, ret, U0, pre, ncorr, nriem>>

\* a selection that falls back to HLLC for a name it does not know
RkSelectFallback ==
  /\ routine = "rk" /\ pc = "select"
  /\ solver' = IF cfg.riemann = "CGF" THEN "CGF" ELSE "HLLC"
  /\ pc' = "riemann_x"
  /\ log' = Append(log, "select")
  /\ UNCHANGED <<routine, grid, dt, cfg, U, q, xi, ldelta, ldx, ldy, used, V_l, V_r, U_xl, U_xr, U_yl, U_yr, F_x, F_y, ret, U0, pre, ncorr, nriem>>

\* fluxes.py lines 201-206: the solver named by compressible.riemann
RkSelect ==
  /\ routine = "rk" /\ pc = "select"
  /\ cfg.riemann \in Solvers
  /\ solver' = cfg.riemann
  /\ pc' = "riemann_x"
  /\ log' = Append(log, "select")
  /\ UNCHANGED <<routine, grid, dt, cfg, U, q, xi, ldelta, ldx, ldy, used, V_l, V_r, U_xl, U_xr, U_yl, U_yr, F_x, F_y, ret, U0, pre, ncorr, nriem>>

\* fluxes.py lines 207-208: msg.fail("ERROR: Riemann solver undefined") ends
\* the run
RkSelectFail ==
  /\ routine = "rk" /\ pc = "select"
  /\ cfg.riemann \notin Solvers
  /\ pc' = "failed"
  /\ log' = Append(log, "fail")
  /\ UNCHANGED <<routine, grid, dt, cfg, U, q, xi, ldelta, ldx, ldy, solver, used, V_l, V_r, U_xl, U_xr, U_yl, U_yr, F_x, F_y, ret, U0, pre, ncorr, nriem>>

\* fluxes.py lines 210-213: _fx = riemannFunc(1, ...)
RkRiemannX ==
  /\ routine = "rk" /\ pc = "riemann_x"
  /\ solver \in Solvers
  /\ F_x' = Riemann(grid, 1, U_xl, U_xr)
  /\ nriem' = <<Solved(grid, nriem[1]), nriem[2]>>
  /\ pc' = "riemann_y"
  /\ log' = Append(log, "riemann_x")
  /\ used' = <<solver, used[2]>>
  /\ UNCHANGED <<routine, grid, dt, cfg, U, q, xi, ldelta, ldx, ldy, solver, V_l, V_r, U_xl, U_xr, U_yl, U_yr, F_y, ret, U0, pre, ncorr>>

\* fluxes.py lines 215-218: _fy = riemannFunc(2, ...)
RkRiemannY ==
  /\ routine = "rk" /\ pc = "riemann_y"
  /\ solver \in Solvers
  /\ F_y' = Riemann(grid, 2, U_yl, U_yr)
  /\ nriem' = <<nriem[1], Solved(grid, nriem[2])>>
  /\ pc' = "viscosity"
  /\ log' = Append(log, "riemann_y")
  /\ used' = <<used[1], solver>>
  /\ UNCHANGED <<routine, grid, dt, cfg, U, q, xi, ldelta, ldx, ldy, solver, V_l, V_r, U_xl, U_xr, U_yl, U_yr, F_x, ret, U0, pre, ncorr>>

\* a viscosity pass that also smooths the caller's state with the x
\* coefficient
RkViscosityInPlace ==
  /\ routine = "rk" /\ pc = "viscosity"
  /\ F_x' = AddViscosity(grid, 1, F_x, Avisco(grid, 1, cfg.cvisc, q), U)
  /\ F_y' = AddViscosity(grid, 2, F_y, Avisco(grid, 2, cfg.cvisc, q), U)
  /\ U' = AddViscosity(grid, 1, U, Avisco(grid, 1, cfg.cvisc, q), U)
  /\ pre' = [F_x |-> F_x, F_y |-> F_y]
  /\ pc' = "return"
  /\ log' = Append(log, "viscosity")
  /\ UNCHANGED <<routine, grid, dt, cfg, q, xi, ldelta, ldx, ldy, solver, used, V_l, V_r, U_xl, U_xr, U_yl, U_yr, ret, U0, ncorr, nriem>>

\* fluxes.py lines 228-249: the artificial viscosity added to F_x and F_y
RkViscosity ==
  /\ routine = "rk" /\ pc = "viscosity"
  /\ F_x' = AddViscosity(grid, 1, F_x, Avisco(grid, 1, cfg.cvisc, q), U)
  /\ F_y' = AddViscosity(grid, 2, F_y, Avisco(grid, 2, cfg.cvisc, q), U)
  /\ pre' = [F_x |-> F_x, F_y |-> F_y]
  /\ pc' = "return"
  /\ log' = Append(log, "viscosity")
  /\ UNCHANGED <<routine, grid, dt, cfg, U, q, xi, ldelta, ldx, ldy, solver, used, V_l, V_r, U_xl, U_xr, U_yl, U_yr, ret, U0, ncorr, nriem>>

\* fluxes.py line 253: return F_x, F_y
RkReturn ==
  /\ routine = "rk" /\ pc = "return"
  /\ ret' = <<F_x, F_y>>
  /\ pc' = "done"
  /\ log' = Append(log, "return")
  /\ UNCHANGED <<routine, grid, dt, cfg, U, q, xi, ldelta, ldx, ldy, solver, used, V_l, V_r, U_xl, U_xr, U_yl, U_yr, F_x, F_y, U0, pre, ncorr, nriem>>

Next ==
  \/ Prim
  \/ FlattenStage
  \/ LimitX
  \/ StatesX
  \/ StatesXError
  \/ ConsX
  \/ LimitY
  \/ StatesY
  \/ ConsY
  \/ RiemannTX
  \/ RiemannTY
  \/ Correct
  \/ RiemannFX
  \/ RiemannFY
  \/ Return
  \/ RkPrim
  \/ RkFlatten
  \/ RkLimit
  \/ RkStatesX
  \/ RkStatesXError
  \/ RkStatesY
  \/ RkSelect
  \/ RkSelectFail
  \/ RkRiemannX
  \/ RkRiemannY
  \/ RkViscosity
  \/ RkReturn

Spec == Init /\ [][Next]_vars

\* ================================================================ claims
\* the positions of unsplitFluxes after the transverse correction
AfterCorrection == {"riemann_fx", "riemann_fy", "return", "done"}
\* the index range of the correction loop
CorrRange(g) == (Ilo(g) - 2 .. Ihi(g) + 2) \X (Jlo(g) - 2 .. Jhi(g) + 2)

\* C1: once the transverse correction of unsplitFluxes has run, every entry
\* (i, j, n) with ilo-2 <= i <= ihi+2 and jlo-2 <= j <= jhi+2 of the four
\* conserved interface-state arrays has been corrected exactly once and holds
\* its pre-correction value minus 0.5 dt/dy (F_y[i-1,j+1] - F_y[i-1,j]) for
\* U_xl, 0.5 dt/dy (F_y[i,j+1] - F_y[i,j]) for U_xr, 0.5 dt/dx (F_x[i+1,j-1] -
\* F_x[i,j-1]) for U_yl and 0.5 dt/dx (F_x[i+1,j] - F_x[i,j]) for U_yr, F_x
\* and F_y being the fluxes of the first Riemann pass on the pre-correction
\* states; the entries outside the range are unchanged.
C1_TransverseCorrection ==
  (routine = "unsplit" /\ pc \in AfterCorrection) =>
    LET cy == FixDiv(FixMul(Half, dt), grid.dy)
        cx == FixDiv(FixMul(Half, dt), grid.dx)
    IN /\ pre.F_x = Riemann(grid, 1, pre.U_xl, pre.U_xr)
       /\ pre.F_y = Riemann(grid, 2, pre.U_yl, pre.U_yr)
       /\ \A c \in Cells(grid) :
            LET i == c[1]
                j == c[2]
            IN IF c \in CorrRange(grid)
               THEN /\ ncorr[c] = 1
                    /\ \A n \in Comps :
                         /\ U_xl[c][n] = pre.U_xl[c][n]
                              - FixMul(cy, pre.F_y[<<i - 1, j + 1>>][n] - pre.F_y[<<i - 1, j>>][n])
                         /\ U_xr[c][n] = pre.U_xr[c][n]
                              - FixMul(cy, pre.F_y[<<i, j + 1>>][n] - pre.F_y[<<i, j>>][n])
                         /\ U_yl[c][n] = pre.U_yl[c][n]
                              - FixMul(cx, pre.F_x[<<i + 1, j - 1>>][n] - pre.F_x[<<i, j - 1>>][n])
                         /\ U_yr[c][n] = pre.U_yr[c][n]
                              - FixMul(cx, pre.F_x[<<i + 1, j>>][n] - pre.F_x[<<i, j>>][n])
               ELSE /\ ncorr[c] = 0
                    /\ U_xl[c] = pre.U_xl[c] /\ U_xr[c] = pre.U_xr[c]
                    /\ U_yl[c] = pre.U_yl[c] /\ U_yr[c] = pre.U_yr[c]
\* a corrected run with a nonzero time step in which each of the four arrays
\* was changed in some entry of the range and some entry lies outside it
C1_Witness ==
  /\ routine = "unsplit" /\ pc = "riemann_fx" /\ dt # 0
  /\ \E c \in CorrRange(grid) : U_xl[c] # pre.U_xl[c]
  /\ \E c \in CorrRange(grid) : U_xr[c] # pre.U_xr[c]
  /\ \E c \in CorrRange(grid) : U_yl[c] # pre.U_yl[c]
  /\ \E c \in CorrRange(grid) : U_yr[c] # pre.U_yr[c]
  /\ Cells(grid) \ CorrRange(grid) # {}

\* the stages of unsplitFluxes in the order of the code
UnsplitOrder ==
  <<"prim", "flatten", "limit_x", "states_x", "cons_x", "limit_y", "states_y", "cons_y",
    "riemann_x", "riemann_y", "correct", "riemann_x", "riemann_y", "return">>
IsPrefix(s, t) == Len(s) <= Len(t) /\ \A k \in 1 .. Len(s) : s[k] = t[k]
Count(s, x) == Cardinality({k \in 1 .. Len(s) : s[k] = x})

\* C2: a call of unsplitFluxes runs its stages in the order primitive
\* derivation, flattening, limiting and prediction in x and y, transverse
\* Riemann solves in x and y, transverse correction, final Riemann solves in
\* x and y, return: the correction starts with both transverse fluxes
\* computed, the final solves start with the four arrays corrected, a
\* finished call has solved exactly twice per direction, and the fluxes it
\* returns are those of the second solve, taken on the corrected states.
C2_StageOrder ==
  routine = "unsplit" =>
    /\ IsPrefix(log, UnsplitOrder)
    /\ pc \in AfterCorrection =>
         /\ Count(SubSeq(log, 1, 11), "riemann_x") = 1
         /\ Count(SubSeq(log, 1, 11), "riemann_y") = 1
         /\ log[11] = "correct"
         /\ U_xl = CorrectXl(grid, dt, pre.U_xl, pre.F_y)
         /\ U_yr = CorrectYr(grid, dt, pre.U_yr, pre.F_x)
    /\ pc = "done" =>
         /\ Count(log, "riemann_x") = 2 /\ Count(log, "riemann_y") = 2
         /\ \A c \in RiemannRange(grid) : nriem[1][c] = 2 /\ nriem[2][c] = 2
         /\ ret = <<Riemann(grid, 1, U_xl, U_xr), Riemann(grid, 2, U_yl, U_yr)>>
\* a finished call whose returned fluxes differ from the transverse fluxes
\* of the first solve in both directions
C2_Witness ==
  /\ routine = "unsplit" /\ pc = "done"
  /\ ret[1] # pre.F_x /\ ret[2] # pre.F_y

\* C8: after the primitive derivation of unsplitFluxes the pressure the
\* later stages work with is at least smallp in every cell of the padded
\* grid, whatever the equation of state gave for the cell.
C8_PressureFloor ==
  (routine = "unsplit" /\ pc # "start") =>
    \A c \in Cells(grid) : U[c][idens] > 0 => q[c][ip] >= smallp
\* a derived field one of whose cells has an equation-of-state pressure
\* below smallp
C8_Witness ==
  /\ routine = "unsplit" /\ pc = "flatten"
  /\ \E c \in Cells(grid) :
       /\ U[c][idens] > 0
       /\ FixMul(FixMul(U[c][idens],
                        FixDiv(U[c][iener] - FixDiv(FixMul(Half, FixMul(U[c][ixmom], U[c][ixmom])
                                                                 + FixMul(U[c][iymom], U[c][iymom])),
                                                    U[c][idens]), U[c][idens])), gamma - One) < smallp
       /\ q[c][ip] = smallp

\* C4: a call of unsplitFluxes or of fluxes, its artificial-viscosity pass
\* included, leaves the caller's conserved arrays as they were in every cell
\* of the padded grid, and what it hands back is the pair F_x, F_y.
C4_CallerArraysUntouched ==
  /\ U = U0
  /\ IF pc = "done" THEN ret = <<F_x, F_y>> ELSE ret = <<>>
\* a finished call of fluxes whose viscosity pass changed both fluxes
C4_Witness ==
  /\ routine = "rk" /\ pc = "done" /\ U = U0
  /\ F_x # pre.F_x /\ F_y # pre.F_y

\* the neighbour of entry c on the low side of direction idir
Low(idir, c) == IF idir = 1 THEN <<c[1] - 1, c[2]>> ELSE <<c[1], c[2] - 1>>
\* V_l and V_r as the index convention gives them for the characteristic
\* predictor: entry k of V_l from zone k-1, entry k of V_r from zone k, zero
\* where no zone of the loop range writes
ConventionStates(idir) ==
  LET dtdx == IF idir = 1 THEN FixDiv(dt, grid.dx) ELSE FixDiv(dt, grid.dy)
  IN \A c \in Cells(grid) :
       /\ V_l[c] = IF Low(idir, c) \in CorrRange(grid)
                   THEN ZoneLeft(idir, dtdx, q[Low(idir, c)], ldelta[Low(idir, c)])
                   ELSE Zero4
       /\ V_r[c] = IF c \in CorrRange(grid)
                   THEN ZoneRight(idir, dtdx, q[c], ldelta[c])
                   ELSE Zero4
\* the same for the space-only reconstruction of fluxes
ConventionRk(idir, LD) ==
  \A c \in Cells(grid) :
    /\ Low(idir, c) \in CorrRange(grid) =>
         \A n \in Comps : V_l[c][n] = q[Low(idir, c)][n] + FixMul(Half, LD[Low(idir, c)][n])
    /\ c \in CorrRange(grid) =>
         \A n \in Comps : V_r[c][n] = q[c][n] - FixMul(Half, LD[c][n])

\* C5: after a sweep of the state predictor, V_l[i+1,j] (V_l[i,j+1] in the
\* y sweep) holds the left state of zone (i,j) and V_r[i,j] its right
\* state, for every zone of the loop range, and nothing else was written:
\* V_l[k] and V_r[k] bracket interface k-1/2, V_l[k] depending on zone k-1
\* only and V_r[k] on zone k only.  The reconstruction of fluxes follows
\* the same convention.
C5_IndexConvention ==
  /\ (routine = "unsplit" /\ pc = "cons_x") => ConventionStates(1)
  /\ (routine = "unsplit" /\ pc = "cons_y") => ConventionStates(2)
  /\ (routine = "rk" /\ pc = "states_y") => ConventionRk(1, ldx)
  /\ (routine = "rk" /\ pc = "select") => ConventionRk(2, ldy)
\* an x sweep of the predictor, with a time step, after which V_l and V_r
\* differ at an interface of the interior
C5_Witness ==
  /\ routine = "unsplit" /\ pc = "cons_x" /\ dt # 0
  /\ \E c \in Cells(grid) :
       /\ Low(1, c) \in CorrRange(grid) /\ c \in CorrRange(grid)
       /\ V_l[c] # V_r[c] /\ V_l[c] # Zero4 /\ q[Low(1, c)] # q[c]

\* C10: with a Riemann-solver name other than "HLLC" and "CGF", fluxes ends
\* in the fatal error before any Riemann solve and returns nothing; with
\* "HLLC" or "CGF" both directions are solved with the solver of that name.
C10_RiemannName ==
  routine = "rk" =>
    /\ cfg.riemann \notin {"HLLC", "CGF"} =>
         /\ pc \in {"start", "flatten", "limit", "states_x", "states_y", "select", "error", "failed"}
         /\ ret = <<>> /\ solver = "none" /\ used = <<"none", "none">>
         /\ \A c \in Cells(grid) : nriem[1][c] = 0 /\ nriem[2][c] = 0
         /\ Count(log, "riemann_x") = 0 /\ Count(log, "riemann_y") = 0
    /\ cfg.riemann \in {"HLLC", "CGF"} =>
         /\ pc \in {"riemann_y", "viscosity", "return", "done"} => used[1] = cfg.riemann
         /\ pc \in {"viscosity", "return", "done"} => used[2] = cfg.riemann
         /\ pc # "failed"
\* a call with the name "HLL" that has ended in the fatal error
C10_Witness ==
  routine = "rk" /\ cfg.riemann = "HLL" /\ pc = "failed" /\ log[Len(log)] = "fail"

\* the slope s handed on for the middle one of three consecutive averages a,
\* b, c is zero at an extremum, and otherwise does not oppose the common
\* sign of the differences and is at most 2 min(|b-a|, |c-b|) in magnitude
BoundedSlope(a, b, c, s) ==
  IF Sgn(b - a) * Sgn(c - b) < 0 THEN s = 0
  ELSE s * Sgn(c - a) >= 0 /\ Abs(s) <= 2 * Min(Abs(b - a), Abs(c - b))
\* every slope of LD along idir is bounded by the averages of q around it
SlopesBounded(idir, LD) ==
  \A z \in Cells(grid) : \A n \in Comps :
    Fits(grid, z, idir, 1) =>
      BoundedSlope(q[Shift(z, idir, -1)][n], q[z][n], q[Shift(z, idir, 1)][n], LD[z][n])
\* the flattening coefficients lie in [0, 1]
XiInRange == \A z \in Cells(grid) : 0 <= xi[z] /\ xi[z] <= One
\* the positions of fluxes after its slopes are computed
AfterRkLimit == {"states_x", "states_y", "select", "riemann_x", "riemann_y", "viscosity", "return", "done", "failed", "error"}

\* C9 as stated: whatever the routine and its limiter option, the slope the
\* state predictor is given for a cell (xi times the limiter output) is
\* zero where the differences to the two neighbours have opposite sign, and
\* otherwise has their sign and magnitude at most twice the smaller one.
C9_SlopesBoundedAlways ==
  /\ (routine = "unsplit" /\ pc = "states_x") => XiInRange /\ SlopesBounded(1, ldelta)
  /\ (routine = "unsplit" /\ pc = "states_y") => XiInRange /\ SlopesBounded(2, ldelta)
  /\ (routine = "rk" /\ pc \in AfterRkLimit) =>
       XiInRange /\ SlopesBounded(1, ldx) /\ SlopesBounded(2, ldy)

\* C9: in unsplitFluxes, and in fluxes when the limiter option is 1 or 2,
\* the slope the state predictor is given for a cell (xi times the limiter
\* output, xi in [0, 1]) is zero where the differences to the two
\* neighbours have opposite sign, and otherwise does not oppose their sign
\* and has magnitude at most twice the smaller one.
C9_SlopesBounded ==
  /\ (routine = "unsplit" /\ pc = "states_x") => XiInRange /\ SlopesBounded(1, ldelta)
  /\ (routine = "unsplit" /\ pc = "states_y") => XiInRange /\ SlopesBounded(2, ldelta)
  /\ (routine = "rk" /\ pc \in AfterRkLimit /\ cfg.limiter \in {1, 2}) =>
       XiInRange /\ SlopesBounded(1, ldx) /\ SlopesBounded(2, ldy)
\* slopes of fluxes with a limiter, of which one is scaled by a fractional
\* flattening coefficient and one is zero at a strict extremum
C9_Witness ==
  /\ routine = "rk" /\ pc = "states_x" /\ cfg.limiter \in {1, 2}
  /\ \E z \in Cells(grid) : \E n \in Comps :
       0 < xi[z] /\ xi[z] < One /\ ldx[z][n] # 0
  /\ \E z \in Cells(grid) : \E n \in Comps :
       /\ Fits(grid, z, 1, 1)
       /\ Sgn(q[z][n] - q[Shift(z, 1, -1)][n]) * Sgn(q[Shift(z, 1, 1)][n] - q[z][n]) < 0
       /\ ldx[z][n] = 0

\* C3: every interface of the solved range gets one flux vector per
\* direction, from one Riemann evaluation per pass: F_x[i,j] is the solver's
\* flux for the pair of states at the face between cells (i-1,j) and (i,j),
\* F_y[i,j] for the face between (i,j-1) and (i,j), so the two cells of a face
\* share one flux.  In fluxes the left state of the pair is built from the
\* cell below the face and the right state from the cell above it.
C3_OneFluxPerInterface ==
  /\ \A c \in Cells(grid) :
       /\ nriem[1][c] = IF c \in RiemannRange(grid) THEN Count(log, "riemann_x") ELSE 0
       /\ nriem[2][c] = IF c \in RiemannRange(grid) THEN Count(log, "riemann_y") ELSE 0
  /\ (routine = "unsplit" /\ pc = "done") =>
       \A c \in RiemannRange(grid) :
         /\ ret[1][c] = RiemannFlux(1, U_xl[c], U_xr[c])
         /\ ret[2][c] = RiemannFlux(2, U_yl[c], U_yr[c])
         /\ nriem[1][c] = 2 /\ nriem[2][c] = 2
  /\ (routine = "rk" /\ pc = "done") =>
       \A c \in RiemannRange(grid) :
         /\ pre.F_x[c] = RiemannFlux(1, PrimToConsCell(RkLeft(q[Low(1, c)], ldx[Low(1, c)])),
                                        PrimToConsCell(RkRight(q[c], ldx[c])))
         /\ pre.F_y[c] = RiemannFlux(2, PrimToConsCell(RkLeft(q[Low(2, c)], ldy[Low(2, c)])),
                                        PrimToConsCell(RkRight(q[c], ldy[c])))
         /\ nriem[1][c] = 1 /\ nriem[2][c] = 1
\* a finished call of unsplitFluxes with a flux through a face whose two
\* states differ
C3_Witness ==
  /\ routine = "unsplit" /\ pc = "done"
  /\ \E c \in RiemannRange(grid) :
       /\ U_yl[c] # U_yr[c] /\ ret[2][c] # Zero4 /\ nriem[2][c] = 2
       /\ U_xl[c] # U_xr[c] /\ ret[1][c] # Zero4 /\ nriem[1][c] = 2

\* the uniform field rho = 1, u = v = 0, p = 1 with gamma = 1.4
UniformInput == \A c \in Cells(grid) : U[c] = <<One, 0, 0, (5 * One) \div 2>>
\* the x and y faces of the interior cells
XFaces(g) == (Ilo(g) .. Ihi(g) + 1) \X (Jlo(g) .. Jhi(g))
YFaces(g) == (Ilo(g) .. Ihi(g)) \X (Jlo(g) .. Jhi(g) + 1)

\* C6 as stated: for the uniform field rho = 1, u = v = 0, p = 1, gamma =
\* 1.4 the returned fluxes are F_x = F_y = (0, p, 0, 0), in the order
\* (density, x-momentum, y-momentum, energy), at every face of the interior
\* cells.
C6_UniformFluxAsStated ==
  (pc = "done" /\ UniformInput) =>
    /\ \A c \in XFaces(grid) : ret[1][c] = <<0, One, 0, 0>>
    /\ \A c \in YFaces(grid) : ret[2][c] = <<0, One, 0, 0>>

\* C6: for the uniform field rho = 1, u = v = 0, p = 1, gamma = 1.4 the
\* returned fluxes are, in the order (density, x-momentum, y-momentum,
\* energy), F_x = (0, p, 0, 0) and F_y = (0, 0, p, 0) at every face of the
\* interior cells: the pressure sits in the momentum normal to the face.
C6_UniformFlux ==
  (pc = "done" /\ UniformInput) =>
    /\ \A c \in XFaces(grid) : ret[1][c] = <<0, One, 0, 0>>
    /\ \A c \in YFaces(grid) : ret[2][c] = <<0, 0, One, 0>>
\* a finished call of unsplitFluxes on the uniform field with a time step
C6_Witness ==
  /\ routine = "unsplit" /\ pc = "done" /\ UniformInput /\ dt # 0
  /\ \A c \in Cells(grid) : q[c] = <<One, 0, 0, One>>

\* the sum of two index pairs
Add2(c, d) == <<c[1] + d[1], c[2] + d[2]>>

\* the transposed problem: cells (i,j) <-> (j,i), the two velocities (momenta)
\* exchanged, dx <-> dy
TGrid(g) == [nx |-> g.ny, ny |-> g.nx, ng |-> g.ng, dx |-> g.dy, dy |-> g.dx]
TVec(V) == <<V[1], V[3], V[2], V[4]>>
TArr(g, A) == [c \in Cells(TGrid(g)) |-> TVec(A[<<c[2], c[1]>>])]

\* C7: the characteristic predictor and the transverse correction of
\* unsplitFluxes commute with transposition: the y sweep on the transposed
\* cell data and slopes gives the transposed x-sweep states and the x sweep
\* the transposed y-sweep states, and the y (x) corrections on the
\* transposed states and fluxes give the transposed x (y) corrections.
C7_AxisSymmetry ==
  /\ (routine = "unsplit" /\ pc = "cons_x") =>
       LET t == InterfaceStates(TGrid(grid), 2, dt, TArr(grid, q), TArr(grid, ldelta))
       IN t.l = TArr(grid, V_l) /\ t.r = TArr(grid, V_r)
  /\ (routine = "unsplit" /\ pc = "cons_y") =>
       LET t == InterfaceStates(TGrid(grid), 1, dt, TArr(grid, q), TArr(grid, ldelta))
       IN t.l = TArr(grid, V_l) /\ t.r = TArr(grid, V_r)
  /\ (routine = "unsplit" /\ pc = "riemann_fx") =>
       /\ CorrectYl(TGrid(grid), dt, TArr(grid, pre.U_xl), TArr(grid, pre.F_y)) = TArr(grid, U_xl)
       /\ CorrectYr(TGrid(grid), dt, TArr(grid, pre.U_xr), TArr(grid, pre.F_y)) = TArr(grid, U_xr)
       /\ CorrectXl(TGrid(grid), dt, TArr(grid, pre.U_yl), TArr(grid, pre.F_x)) = TArr(grid, U_yl)
       /\ CorrectXr(TGrid(grid), dt, TArr(grid, pre.U_yr), TArr(grid, pre.F_x)) = TArr(grid, U_yr)
\* a y sweep with a time step on a field that is not its own transpose, on a
\* grid that is not square, in which the tracing moved a state
C7_Witness ==
  /\ routine = "unsplit" /\ pc = "cons_y" /\ dt # 0 /\ grid.nx # grid.ny
  /\ \E c \in Cells(grid) : q[c][iu] # q[c][iv] /\ q[c][iv] # 0
  /\ \E c \in CorrRange(grid) : V_r[c] # q[c] /\ V_r[c] # Sub4(q[c], Scale4(Half, ldelta[c]))

\* the per-cell stages of fluxes: primitive derivation, flattening,
\* limiting, interface-state reconstruction with the conserved transform
PerCellStages == {"prim", "flatten", "limit", "limit_x", "limit_y", "states_x", "states_y", "cons_x", "cons_y"}
\* no per-cell stage has run and none of its arrays has been filled
NothingComputed ==
  /\ \A k \in 1 .. Len(log) : log[k] \notin PerCellStages
  /\ q = Zeros(grid) /\ xi = Zeros1(grid) /\ ldx = Zeros(grid) /\ ldy = Zeros(grid)
  /\ V_l = Zeros(grid) /\ V_r = Zeros(grid)
  /\ U_xl = Zeros(grid) /\ U_xr = Zeros(grid) /\ U_yl = Zeros(grid) /\ U_yr = Zeros(grid)

\* C11: a call of fluxes with a Riemann-solver name that is not known
\* performs no per-cell computation at all: at every point of the call, up
\* to and including the fatal error, no primitive variable, flattening
\* coefficient, slope, interface state or conserved state has been computed.
C11_FailFast ==
  (routine = "rk" /\ cfg.riemann \notin Solvers) => NothingComputed

\* C12: the limiter option selects the limiter of the flux routine: the
\* slopes of all four primitive variables in both directions are the
\* flattening coefficient times the output of the limiter the option names
\* (1: 2nd-order MC, 2: 4th-order MC, 0: none), in unsplitFluxes as in
\* fluxes.
C12_LimiterOption ==
  /\ (routine = "unsplit" /\ pc = "states_x") => ldelta = LimitedSlopes(grid, 1, q, xi, cfg.limiter)
  /\ (routine = "unsplit" /\ pc = "states_y") => ldelta = LimitedSlopes(grid, 2, q, xi, cfg.limiter)
  /\ (routine = "rk" /\ pc \in AfterRkLimit) =>
       /\ ldx = LimitedSlopes(grid, 1, q, xi, cfg.limiter)
       /\ ldy = LimitedSlopes(grid, 2, q, xi, cfg.limiter)

\* the slopes of direction idir as the limiter gives them, not scaled
UnscaledSlopes(idir, limiter) == LimitedSlopes(grid, idir, q, [c \in Cells(grid) |-> One], limiter)
\* the positions of unsplitFluxes after its flattening stage
AfterFlatten == {"limit_x", "states_x", "cons_x", "limit_y", "states_y", "cons_y", "riemann_tx", "riemann_ty",
                 "correct", "riemann_fx", "riemann_fy", "return", "done", "error"}

\* C13: with use_flattening disabled, both flux routines leave the slopes
\* unflattened: xi is 1 in every cell and the slopes handed to the state
\* reconstruction are the limiter output itself.
C13_FlatteningOption ==
  /\ (routine = "unsplit" /\ ~cfg.use_flattening /\ pc \in AfterFlatten) =>
       /\ \A c \in Cells(grid) : xi[c] = One
       /\ pc = "states_x" => ldelta = UnscaledSlopes(1, 2)
       /\ pc = "states_y" => ldelta = UnscaledSlopes(2, 2)
  /\ (routine = "rk" /\ ~cfg.use_flattening /\ pc \in AfterRkLimit) =>
       /\ \A c \in Cells(grid) : xi[c] = One
       /\ ldx = UnscaledSlopes(1, cfg.limiter)
       /\ ldy = UnscaledSlopes(2, cfg.limiter)

\* the sweep whose states V_l, V_r hold, and the data of its zones
SweepDone == IF pc = "cons_x" THEN 1 ELSE 2
ZoneEval(z) == Eval(SweepDone, q[z])
ZoneBetal(z) == Betal(FixMul(Quarter, DtDx(grid, SweepDone, dt)), ZoneEval(z), Lvec(SweepDone, q[z]), ldelta[z])
ZoneBetar(z) == Betar(FixMul(Quarter, DtDx(grid, SweepDone, dt)), ZoneEval(z), Lvec(SweepDone, q[z]), ldelta[z])
AllNegative(ev) == \A m \in 1 .. 4 : ev[m] < 0
AllPositive(ev) == \A m \in 1 .. 4 : ev[m] > 0

\* C14: in a sweep of interfaceStates, for every zone of the loop, betal[m]
\* is zero for every field m with a negative eigenvalue and for the fastest
\* field, betar[m] is zero for every field with a positive eigenvalue and
\* for the slowest field; when all four eigenvalues are negative the left
\* state at the zone's high face is V + 0.5 dV, when all are positive the
\* right state at its low face is V - 0.5 dV.
C14_UpwindTracing ==
  (routine = "unsplit" /\ pc \in {"cons_x", "cons_y"}) =>
    \A z \in LoopZones(grid) :
      LET ev == ZoneEval(z)
          bl == ZoneBetal(z)
          br == ZoneBetar(z)
      IN /\ \A m \in 1 .. 4 : ev[m] < 0 => bl[m] = 0
         /\ bl[4] = 0
         /\ \A m \in 1 .. 4 : ev[m] > 0 => br[m] = 0
         /\ br[1] = 0
         /\ AllNegative(ev) =>
              V_l[LeftTarget(SweepDone, z[1], z[2])] = Add4(q[z], Scale4(Half, ldelta[z]))
         /\ AllPositive(ev) =>
              V_r[RightTarget(SweepDone, z[1], z[2])] = Sub4(q[z], Scale4(Half, ldelta[z]))
\* an x sweep with a time step in which one zone has only left-going waves
\* and slopes, so that its left state is the reference state and not the
\* cell state, and another zone has a right-going wave that contributes
C14_Witness ==
  /\ routine = "unsplit" /\ pc = "cons_x" /\ dt # 0
  /\ \E z \in LoopZones(grid) :
       /\ AllNegative(ZoneEval(z))
       /\ \E n \in Comps : Dot4(Lvec(1, q[z])[n], ldelta[z]) # 0
       /\ V_l[LeftTarget(1, z[1], z[2])] = Add4(q[z], Scale4(Half, ldelta[z]))
       /\ V_l[LeftTarget(1, z[1], z[2])] # q[z]
  /\ \E z \in LoopZones(grid) : \E m \in 1 .. 4 : ZoneBetal(z)[m] # 0
  /\ \E z \in LoopZones(grid) : \E m \in 1 .. 4 : ZoneBetar(z)[m] # 0

\* two other orders of the iterations of the correction loop: the order of
\* the code backwards, and n outermost, then i, then j
ReverseOrder(g) == [t \in 1 .. nvar * LoopCount(g) |-> LoopOrder(g)[nvar * LoopCount(g) + 1 - t]]
LoopHeight(g) == Jhi(g) - Jlo(g) + 5
ColumnOrder(g) ==
  [t \in 1 .. nvar * LoopCount(g) |->
     <<Ilo(g) - 2 + (((t - 1) % LoopCount(g)) \div LoopHeight(g)),
       Jlo(g) - 2 + (((t - 1) % LoopCount(g)) % LoopHeight(g)),
       ((t - 1) \div LoopCount(g)) + 1>>]
\* the four state arrays as the correction loop found them and left them
StatesBefore == [xl |-> pre.U_xl, xr |-> pre.U_xr, yl |-> pre.U_yl, yr |-> pre.U_yr]
StatesAfter == [xl |-> U_xl, xr |-> U_xr, yl |-> U_yl, yr |-> U_yr]
IsPermutation(g, order) ==
  /\ \A t \in DOMAIN order : \E k \in DOMAIN order : LoopOrder(g)[k] = order[t]
  /\ \A t, k \in DOMAIN order : order[t] = order[k] => t = k

AfterRkSweeps == {"select", "riemann_x", "riemann_y", "viscosity", "return", "done", "failed"}
\* the sweeps of fluxes in the other order: y first on the fresh scratch
\* arrays, then x on the arrays the y sweep left
YFirstVl == RkStatesL(grid, 2, q, ldy, Zeros(grid))
YFirstVr == RkStatesR(grid, 2, q, ldy, Zeros(grid))

\* the entries of V_l a sweep of fluxes along idir assigns
LeftBlock(g, idir) == {c \in Cells(g) : Shift(c, idir, -1) \in Block(g, 2, 2)}
\* the x states of unsplitFluxes and of the other order of fluxes
UnsplitX == InterfaceStates(grid, 1, dt, q, LimitedSlopes4(grid, 1, q, xi))
UnsplitY == InterfaceStates(grid, 2, dt, q, LimitedSlopes4(grid, 2, q, xi))
YFirstUxl == PrimToCons(grid, RkStatesL(grid, 1, q, ldx, YFirstVl))
YFirstUxr == PrimToCons(grid, RkStatesR(grid, 1, q, ldx, YFirstVr))

\* C16 as stated: the x and y sweeps commute in every array entry: the
\* states U_xl, U_xr, U_yl, U_yr that the routine holds after its two sweeps
\* are those of the sweeps taken in the other order, and U_yl, U_yr are the
\* conserved form of the y-sweep states alone, with no entry left over from
\* the x sweep.
C16_SweepsCommuteEverywhere ==
  /\ (routine = "rk" /\ pc \in AfterRkSweeps) =>
       /\ U_yl = PrimToCons(grid, YFirstVl)
       /\ U_yr = PrimToCons(grid, YFirstVr)
       /\ U_xl = YFirstUxl
       /\ U_xr = YFirstUxr
  /\ (routine = "unsplit" /\ pc = "riemann_tx") =>
       /\ U_yl = PrimToCons(grid, UnsplitY.l) /\ U_yr = PrimToCons(grid, UnsplitY.r)
       /\ U_xl = PrimToCons(grid, UnsplitX.l) /\ U_xr = PrimToCons(grid, UnsplitX.r)

\* C16: in unsplitFluxes the states of each direction are those of its sweep
\* alone in every entry.  In fluxes the right states are, and the left
\* states are in every entry the sweep of their direction assigns, which
\* includes every interface the Riemann solver resolves, so that the fluxes
\* of the two orders agree; outside it the reused V_l keeps the other
\* sweep's values.
C16_SweepsCommute ==
  /\ (routine = "rk" /\ pc \in AfterRkSweeps) =>
       /\ U_yr = PrimToCons(grid, YFirstVr)
       /\ U_xr = YFirstUxr
       /\ \A c \in LeftBlock(grid, 2) : U_yl[c] = PrimToConsCell(YFirstVl[c])
       /\ \A c \in LeftBlock(grid, 1) : U_xl[c] = YFirstUxl[c]
       /\ RiemannRange(grid) \subseteq LeftBlock(grid, 1) \cap LeftBlock(grid, 2)
       /\ Riemann(grid, 1, U_xl, U_xr) = Riemann(grid, 1, YFirstUxl, YFirstUxr)
       /\ Riemann(grid, 2, U_yl, U_yr) = Riemann(grid, 2, PrimToCons(grid, YFirstVl), PrimToCons(grid, YFirstVr))
  /\ (routine = "unsplit" /\ pc = "riemann_tx") =>
       /\ U_yl = PrimToCons(grid, UnsplitY.l) /\ U_yr = PrimToCons(grid, UnsplitY.r)
       /\ U_xl = PrimToCons(grid, UnsplitX.l) /\ U_xr = PrimToCons(grid, UnsplitX.r)
\* fluxes after its two sweeps on a field with slopes: an entry of U_yl
\* outside the y block holds the x-sweep state, and inside the block the
\* left and right states differ
C16_Witness ==
  /\ routine = "rk" /\ pc = "select" /\ ldx # Zeros(grid)
  /\ \E c \in Cells(grid) \ LeftBlock(grid, 2) :
       U_yl[c] # PrimToConsCell(YFirstVl[c]) /\ U_yl[c] = U_xl[c]
  /\ \E c \in RiemannRange(grid) : U_yl[c] # U_yr[c] /\ U_xl[c] # U_xr[c]

\* the viscosity coefficients of the call
AviscoX == Avisco(grid, 1, cfg.cvisc, q)
AviscoY == Avisco(grid, 2, cfg.cvisc, q)
\* the faces the viscosity pass updates: buf = (2, 1)
ViscRegion(g) == (Ilo(g) - 2 .. Ihi(g) + 1) \X (Jlo(g) - 2 .. Jhi(g) + 1)

\* C17: the artificial viscosity of fluxes is a pass over the Riemann
\* fluxes, after both solves: for every component n and every face of the
\* updated region, F_x[i,j,n] is the Riemann flux plus avisco_x[i,j] *
\* (U[i-1,j,n] - U[i,j,n]) and F_y[i,j,n] the Riemann flux plus avisco_y[i,j]
\* * (U[i,j-1,n] - U[i,j,n]); elsewhere, and wherever the coefficient is
\* zero (the flow does not converge, or cvisc = 0), the flux is the Riemann
\* flux.
C17_ViscosityPass ==
  (routine = "rk" /\ pc \in {"return", "done"}) =>
    /\ log = <<"prim", "flatten", "limit", "states_x", "states_y", "select", "riemann_x", "riemann_y", "viscosity">>
            \o (IF pc = "done" THEN <<"return">> ELSE <<>>)
    /\ pre.F_x = Riemann(grid, 1, U_xl, U_xr) /\ pre.F_y = Riemann(grid, 2, U_yl, U_yr)
    /\ \A c \in Cells(grid) : \A n \in Comps :
         IF c \in ViscRegion(grid)
         THEN /\ F_x[c][n] = pre.F_x[c][n] + FixMul(AviscoX[c], U[<<c[1] - 1, c[2]>>][n] - U[c][n])
              /\ F_y[c][n] = pre.F_y[c][n] + FixMul(AviscoY[c], U[<<c[1], c[2] - 1>>][n] - U[c][n])
         ELSE F_x[c][n] = pre.F_x[c][n] /\ F_y[c][n] = pre.F_y[c][n]
    /\ \A c \in Cells(grid) :
         /\ AviscoX[c] = 0 => F_x[c] = pre.F_x[c]
         /\ AviscoY[c] = 0 => F_y[c] = pre.F_y[c]
    /\ \A c \in RiemannRange(grid) :
         /\ DivUx(grid, q, c) >= 0 => AviscoX[c] = 0
         /\ DivUy(grid, q, c) >= 0 => AviscoY[c] = 0
    /\ cfg.cvisc = 0 => F_x = pre.F_x /\ F_y = pre.F_y
\* a viscosity pass that changed a flux in each direction at converging
\* faces and left one alone at a face of the region without viscosity
C17_Witness ==
  /\ routine = "rk" /\ pc = "return" /\ cfg.cvisc # 0
  /\ \E c \in ViscRegion(grid) : AviscoX[c] > 0 /\ F_x[c] # pre.F_x[c]
  /\ \E c \in ViscRegion(grid) : AviscoY[c] > 0 /\ F_y[c] # pre.F_y[c]
  /\ \E c \in ViscRegion(grid) : AviscoX[c] = 0 /\ pre.F_x[c] # Zero4 /\ F_x[c] = pre.F_x[c]

\* every cell of the padded grid holds the primitive state of the first one
UniformPrim == \A c \in Cells(grid) : q[c] = q[<<0, 0>>]
\* the entries whose correction differenced two fluxes the solver computed
BothComputed(g, a, b) == {c \in LoopZones(g) : Add2(c, a) \in RiemannRange(g) /\ Add2(c, b) \in RiemannRange(g)}
XlComputed(g) == BothComputed(g, <<-1, 1>>, <<-1, 0>>)
XrComputed(g) == BothComputed(g, <<0, 1>>, <<0, 0>>)
YlComputed(g) == BothComputed(g, <<1, -1>>, <<0, -1>>)
YrComputed(g) == BothComputed(g, <<1, 0>>, <<0, 0>>)
\* the first parts of the uniform-field claim: the predicted states of every
\* zone are the cell state, the transverse fluxes are uniform, the
\* correction changes no entry whose two fluxes were computed, and the
\* transverse solves get equal left and right states
UniformPredictAndCorrect ==
  /\ (pc \in {"cons_x", "cons_y"}) =>
       \A z \in LoopZones(grid) :
         V_l[LeftTarget(SweepDone, z[1], z[2])] = q[z] /\ V_r[RightTarget(SweepDone, z[1], z[2])] = q[z]
  /\ (pc = "riemann_tx") =>
       \A c \in RiemannRange(grid) : U_xl[c] = U_xr[c] /\ U_yl[c] = U_yr[c]
  /\ (pc = "riemann_fx") =>
       /\ \A c, d \in RiemannRange(grid) : pre.F_x[c] = pre.F_x[d] /\ pre.F_y[c] = pre.F_y[d]
       /\ \A c \in XlComputed(grid) : U_xl[c] = pre.U_xl[c]
       /\ \A c \in XrComputed(grid) : U_xr[c] = pre.U_xr[c]
       /\ \A c \in YlComputed(grid) : U_yl[c] = pre.U_yl[c]
       /\ \A c \in YrComputed(grid) : U_yr[c] = pre.U_yr[c]

XCorner(g) == <<Ilo(g) - 1, Jhi(g) + 1>>
YCorner(g) == <<Ihi(g) + 1, Jlo(g) - 1>>

C19_IndexSafety ==
  /\ grid.ng >= MinNg
  /\ pc # "error"
  /\ (routine = "unsplit" /\ pc # "start") =>
       \A z \in LoopZones(grid) :
         /\ \A r \in CorrReads(z[1], z[2]) \cup {z} : r \in Cells(grid)
         /\ \A idir \in {1, 2} :
              LeftTarget(idir, z[1], z[2]) \in Cells(grid) /\ RightTarget(idir, z[1], z[2]) \in Cells(grid)
  /\ (routine = "rk" /\ pc # "start") =>
       BlockOk(grid, 2, 2, 1, 1) /\ BlockOk(grid, 2, 2, 2, 1)

\* the two interface-state arrays fluxes builds from cell values Q and
\* slopes LD in direction idir
RkVl(idir, Q, LD) == RkStatesL(grid, idir, Q, LD, Zeros(grid))
RkVr(idir, Q, LD) == RkStatesR(grid, idir, Q, LD, Zeros(grid))

\* C20: with dt = 0 the predictor of interfaceStates is the space-only
\* reconstruction: for every zone and both directions the reference factors
\* are 0.5 and all beta coefficients are zero, V_l[i+1] = V + 0.5 dV and
\* V_r[i] = V - 0.5 dV, and V_l, V_r are the arrays fluxes builds from the
\* same cell values and slopes.
C20_SpaceOnlyAtZeroDt ==
  (routine = "unsplit" /\ dt = 0 /\ pc \in {"cons_x", "cons_y"}) =>
    /\ \A z \in LoopZones(grid) :
         /\ FactorL(DtDx(grid, SweepDone, dt), ZoneEval(z)) = Half
         /\ FactorR(DtDx(grid, SweepDone, dt), ZoneEval(z)) = Half
         /\ ZoneBetal(z) = Zero4 /\ ZoneBetar(z) = Zero4
         /\ V_l[LeftTarget(SweepDone, z[1], z[2])] = Add4(q[z], Scale4(Half, ldelta[z]))
         /\ V_r[RightTarget(SweepDone, z[1], z[2])] = Sub4(q[z], Scale4(Half, ldelta[z]))
    /\ V_l = RkVl(SweepDone, q, ldelta)
    /\ V_r = RkVr(SweepDone, q, ldelta)
\* a y sweep with dt = 0 on a field with slopes and waves in both senses:
\* the states differ from the cell state, and with a time step the tracing
\* would have moved them
C20_Witness ==
  /\ routine = "unsplit" /\ dt = 0 /\ pc = "cons_y"
  /\ \E z \in LoopZones(grid) :
       /\ V_l[LeftTarget(2, z[1], z[2])] # q[z] /\ V_r[z] # q[z]
       /\ ZoneLeft(2, DtDx(grid, 2, Half), q[z], ldelta[z]) # V_l[LeftTarget(2, z[1], z[2])]
       /\ ZoneRight(2, DtDx(grid, 2, Half), q[z], ldelta[z]) # V_r[z]
====
